---- MODULE Spec2Model ----
(***************************************************************************)
(* Verification model of graphql-engine:                                   *)
(*   - Hasura.RQL.IR.Select: the backend-polymorphic select IR with its    *)
(*     derived Functor / Foldable / Traversable instances and its          *)
(*     hand-written Bifoldable instances;                                  *)
(*   - Hasura.Server.API.V2Query: runQueryM and the schema predicates;     *)
(*   - insertFunctionArg.                                                  *)
(*                                                                         *)
(* Values of the IR are tagged records.  A value of kind "v" is one        *)
(* occurrence of the leaf type parameter v; a value of kind "con" is a     *)
(* constructor application whose field vf lists, in declaration order,     *)
(* the fields whose declared type mentions v, each with the container it   *)
(* is held in: "one" (the value itself), "list" ([a], NonEmpty a, Maybe a  *)
(* and their compositions: a sequence, Nothing being the empty one) or     *)
(* "pairs" ([(key, a)] and HashMap key a: a sequence of key / val          *)
(* records).  Fields not in vf hold plain data.                            *)
(***************************************************************************)
EXTENDS Integers, Sequences, FiniteSets, TLC

\* ------------------------------------------------------------------ bounds
\* Number of construction steps (fields added or wrapped) of one IR tree.
MaxSteps == 2
\* Leaf values are drawn from 0 .. MaxLeaf - 1 (substitutions work modulo it).
MaxLeaf == 48
\* Nesting depth of object-relation order-by elements.
MaxObDepth == 3
\* Number of parsing steps (queries added or wrapped) of one bulk request.
MaxQuerySteps == 3
\* Number of positional arguments of a function call.
MaxArgs == 2
\* Number of root fields of one mutation request.
MaxMutations == 3
\* Number of calls of the start function of the Neon data source hook.
MaxStarts == 2

VARIABLES
    \* IR construction (bottom-up, by the request parser) and the passes
    fields,     \* AnnFieldsG under construction: sequence of Entry(name, AnnFieldG)
    nv,         \* number of leaf markers handed out: the leaves are 1 .. nv
    nr,         \* number of remote payload markers handed out: 1 .. nr
    steps,      \* construction steps taken
    root,       \* Nothing, or Just the finished QueryDB
    seg,        \* where the outermost select's from / perm / args leaves were put
    pc,         \* "build", "ready", "folded", "traversed", "mapped", "paired"
    acc,        \* result of the last pass
    shape,      \* the shape (from-clause, permission, arguments) of the selects built
    pair,       \* Nothing, or Just a remote field and a remote-source selection
    \* an order-by element under construction and the count of its leaves
    ob,
    \* runQuery on a bulk request
    bulk,
    \* one call of insertFunctionArg
    call

irVars == <<fields, nv, nr, steps, root, seg, pc, acc, shape, pair>>
\* the variables the passes over the IR leave alone
ext == <<ob, bulk, call>>
vars == <<fields, nv, nr, steps, root, seg, pc, acc, shape, pair, ob, bulk, call>>

\* ------------------------------------------------------- generic containers
LeafDom == 0 .. (MaxLeaf - 1)

\* one occurrence of the leaf type v
V(i) == [k |-> "v", x |-> i]
\* Maybe a
Nothing == <<>>
Just(x) == <<x>>
\* (key, value) of Fields = [(FieldName, a)] and of a HashMap Text a
Entry(key, val) == [key |-> key, val |-> val]
\* descriptors of the fields that mention v
One(n) == [n |-> n, c |-> "one"]
Many(n) == [n |-> n, c |-> "list"]
Pairs(n) == [n |-> n, c |-> "pairs"]

Range(s) == {s[i] : i \in DOMAIN s}

RECURSIVE Concat(_)
Concat(ss) == IF ss = <<>> THEN <<>> ELSE Head(ss) \o Concat(Tail(ss))

\* --------------------------------------------------- imported IR types
\* GBoolExp: a conjunction of sub-expressions, or a column compared to a leaf
BoolAnd(exps) == [k |-> "con", tag |-> "BoolAnd", vf |-> <<Many("exps")>>, exps |-> exps]
BoolField(col, val) == [k |-> "con", tag |-> "BoolField", vf |-> <<One("val")>>, col |-> col, val |-> val]
annBoolExpTrue == BoolAnd(<<>>)
\* FunctionArgsExpG a = FunctionArgsExp { _faePositional :: [a], _faeNamed :: HashMap Text a }
FunctionArgsExp(positional, named) ==
    [k |-> "con", tag |-> "FunctionArgsExp", vf |-> <<Many("_faePositional"), Pairs("_faeNamed")>>,
     _faePositional |-> positional, _faeNamed |-> named]
\* OrderByItemG b a = OrderByItemG { obiType, obiColumn :: a, obiNulls }
OrderByItemG(type, column, nulls) ==
    [k |-> "con", tag |-> "OrderByItemG", vf |-> <<One("obiColumn")>>,
     obiType |-> type, obiColumn |-> column, obiNulls |-> nulls]
\* NativeQuery b v: a root field name and the interpolated arguments
NativeQuery(name, args) ==
    [k |-> "con", tag |-> "NativeQuery", vf |-> <<Pairs("args")>>, name |-> name, args |-> args]

\* ------------------------------------------------ Hasura.RQL.IR.Select data
\* data QueryDB b r v
QDBMultipleRows(annSel) == [k |-> "con", tag |-> "QDBMultipleRows", vf |-> <<One("sel")>>, sel |-> annSel]
QDBSingleRow(annSel) == [k |-> "con", tag |-> "QDBSingleRow", vf |-> <<One("sel")>>, sel |-> annSel]
QDBAggregation(annSel) == [k |-> "con", tag |-> "QDBAggregation", vf |-> <<One("sel")>>, sel |-> annSel]
QDBConnection(connSel) == [k |-> "con", tag |-> "QDBConnection", vf |-> <<One("sel")>>, sel |-> connSel]
QDBStreamMultipleRows(annSel) ==
    [k |-> "con", tag |-> "QDBStreamMultipleRows", vf |-> <<One("sel")>>, sel |-> annSel]

\* data AnnSelectG b f v
AnnSelectG(flds, from, perm, args, strfyNum, namingConvention) ==
    [k |-> "con", tag |-> "AnnSelectG",
     vf |-> <<Pairs("_asnFields"), One("_asnFrom"), One("_asnPerm"), One("_asnArgs")>>,
     _asnFields |-> flds, _asnFrom |-> from, _asnPerm |-> perm, _asnArgs |-> args,
     _asnStrfyNum |-> strfyNum, _asnNamingConvention |-> namingConvention]

\* data AnnSelectStreamG b f v
AnnSelectStreamG(xStream, flds, from, perm, args, strfyNum) ==
    [k |-> "con", tag |-> "AnnSelectStreamG",
     vf |-> <<Pairs("_assnFields"), One("_assnFrom"), One("_assnPerm"), One("_assnArgs")>>,
     _assnXStreamingSubscription |-> xStream, _assnFields |-> flds, _assnFrom |-> from,
     _assnPerm |-> perm, _assnArgs |-> args, _assnStrfyNum |-> strfyNum]

\* data ConnectionSelect b r v
ConnectionSelect(xRelay, pkCols, split, slice, select) ==
    [k |-> "con", tag |-> "ConnectionSelect", vf |-> <<Many("_csSplit"), One("_csSelect")>>,
     _csXRelay |-> xRelay, _csPrimaryKeyColumns |-> pkCols, _csSplit |-> split,
     _csSlice |-> slice, _csSelect |-> select]

\* data ConnectionSplit b v
ConnectionSplit(kind, value, orderBy) ==
    [k |-> "con", tag |-> "ConnectionSplit", vf |-> <<One("_csValue"), One("_csOrderBy")>>,
     _csKind |-> kind, _csValue |-> value, _csOrderBy |-> orderBy]

\* data ConnectionSlice
SliceFirst(n) == [tag |-> "SliceFirst", n |-> n]
SliceLast(n) == [tag |-> "SliceLast", n |-> n]

\* data SelectFromG b v
FromTable(name) == [k |-> "con", tag |-> "FromTable", vf |-> <<>>, name |-> name]
FromIdentifier(ident) == [k |-> "con", tag |-> "FromIdentifier", vf |-> <<>>, name |-> ident]
FromFunction(name, args, defList) ==
    [k |-> "con", tag |-> "FromFunction", vf |-> <<One("args")>>,
     name |-> name, args |-> args, defList |-> defList]
FromNativeQuery(nq) == [k |-> "con", tag |-> "FromNativeQuery", vf |-> <<One("nq")>>, nq |-> nq]

\* data StreamCursorItem b (no v in it)
StreamCursorItem(ordering, colInfo, initialValue) ==
    [_sciOrdering |-> ordering, _sciColInfo |-> colInfo, _sciInitialValue |-> initialValue]

\* mutant: the initial value of the cursor is a leaf of the arguments
SelectStreamArgsG_cursorLeaf(where, batchSize, cursorArg) ==
    [k |-> "con", tag |-> "SelectStreamArgsG",
     vf |-> <<Many("_ssaWhere"), One("_ssaCursorArg")>>,
     _ssaWhere |-> where, _ssaBatchSize |-> batchSize,
     _ssaCursorArg |-> [k |-> "con", tag |-> "StreamCursorItem",
                        vf |-> <<One("_sciInitialValue")>>,
                        _sciOrdering |-> cursorArg._sciOrdering,
                        _sciColInfo |-> cursorArg._sciColInfo,
                        _sciInitialValue |-> V(0)]]

\* data SelectStreamArgsG b v
SelectStreamArgsG(where, batchSize, cursorArg) ==
    [k |-> "con", tag |-> "SelectStreamArgsG", vf |-> <<Many("_ssaWhere")>>,
     _ssaWhere |-> where, _ssaBatchSize |-> batchSize, _ssaCursorArg |-> cursorArg]

\* data SelectArgsG b v
SelectArgs(where, orderBy, limit, offset, distinct) ==
    [k |-> "con", tag |-> "SelectArgs", vf |-> <<Many("_saWhere"), Many("_saOrderBy")>>,
     _saWhere |-> where, _saOrderBy |-> orderBy, _saLimit |-> limit,
     _saOffset |-> offset, _saDistinct |-> distinct]

noSelectArgs == SelectArgs(Nothing, Nothing, <<>>, <<>>, <<>>)

\* data ComputedFieldOrderByElement b v
CFOBEScalar(type) == [k |-> "con", tag |-> "CFOBEScalar", vf |-> <<>>, type |-> type]
CFOBETableAggregation(table, filter, agg) ==
    [k |-> "con", tag |-> "CFOBETableAggregation", vf |-> <<One("filter")>>,
     table |-> table, filter |-> filter, agg |-> agg]

\* data ComputedFieldOrderBy b v
ComputedFieldOrderBy(xField, name, function, argsExp, element) ==
    [k |-> "con", tag |-> "ComputedFieldOrderBy",
     vf |-> <<One("_cfobFunctionArgsExp"), One("_cfobOrderByElement")>>,
     _cfobXField |-> xField, _cfobName |-> name, _cfobFunction |-> function,
     _cfobFunctionArgsExp |-> argsExp, _cfobOrderByElement |-> element]

\* data AnnotatedAggregateOrderBy b (no v in it)
AAOCount == [tag |-> "AAOCount"]
AAOOp(op, type, col) == [tag |-> "AAOOp", op |-> op, type |-> type, col |-> col]

\* data AnnotatedOrderByElement b v
AOCColumn(colInfo) == [k |-> "con", tag |-> "AOCColumn", vf |-> <<>>, colInfo |-> colInfo]
\* mutant: the filter of the target table is not counted among the fields over v
AOCObjectRelation_noFilter(relInfo, filter, element) ==
    [k |-> "con", tag |-> "AOCObjectRelation", vf |-> <<One("element")>>,
     relInfo |-> relInfo, filter |-> filter, element |-> element]
AOCObjectRelation(relInfo, filter, element) ==
    [k |-> "con", tag |-> "AOCObjectRelation", vf |-> <<One("filter"), One("element")>>,
     relInfo |-> relInfo, filter |-> filter, element |-> element]
AOCArrayAggregation(relInfo, filter, agg) ==
    [k |-> "con", tag |-> "AOCArrayAggregation", vf |-> <<One("filter")>>,
     relInfo |-> relInfo, filter |-> filter, agg |-> agg]
AOCComputedField(cfob) == [k |-> "con", tag |-> "AOCComputedField", vf |-> <<One("cfob")>>, cfob |-> cfob]

\* data RemoteRelationshipSelect b r
RemoteRelationshipSelect(lhsJoinFields, relationship) ==
    [tag |-> "RemoteRelationshipSelect", _rrsLHSJoinFields |-> lhsJoinFields,
     _rrsRelationship |-> relationship]

\* data AnnColumnField b v
AnnColumnField(column, type, asText, arguments, caseBoolExpression) ==
    [k |-> "con", tag |-> "AnnColumnField", vf |-> <<Many("_acfCaseBoolExpression")>>,
     _acfColumn |-> column, _acfType |-> type, _acfAsText |-> asText,
     _acfArguments |-> arguments, _acfCaseBoolExpression |-> caseBoolExpression]

\* data AnnFieldG b r v
AFColumn(col) == [k |-> "con", tag |-> "AFColumn", vf |-> <<One("col")>>, col |-> col]
AFObjectRelation(objRel) ==
    [k |-> "con", tag |-> "AFObjectRelation", vf |-> <<One("objRel")>>, objRel |-> objRel]
AFArrayRelation(arrRel) ==
    [k |-> "con", tag |-> "AFArrayRelation", vf |-> <<One("arrRel")>>, arrRel |-> arrRel]
AFComputedField(xField, name, cf) ==
    [k |-> "con", tag |-> "AFComputedField", vf |-> <<One("cf")>>,
     xField |-> xField, name |-> name, cf |-> cf]
AFRemote(r) == [k |-> "con", tag |-> "AFRemote", vf |-> <<>>, r |-> r]
AFNodeId(xRelay, source, table, pkCols) ==
    [k |-> "con", tag |-> "AFNodeId", vf |-> <<>>,
     xRelay |-> xRelay, source |-> source, table |-> table, pkCols |-> pkCols]
AFExpression(text) == [k |-> "con", tag |-> "AFExpression", vf |-> <<>>, text |-> text]

\* data TableAggregateFieldG b r v
TAFAgg(aggFields) == [k |-> "con", tag |-> "TAFAgg", vf |-> <<>>, aggFields |-> aggFields]
TAFNodes(xNodes, flds) ==
    [k |-> "con", tag |-> "TAFNodes", vf |-> <<Pairs("fields")>>, xNodes |-> xNodes, fields |-> flds]
TAFExp(text) == [k |-> "con", tag |-> "TAFExp", vf |-> <<>>, text |-> text]

\* data ConnectionField b r v
ConnectionTypename(text) == [k |-> "con", tag |-> "ConnectionTypename", vf |-> <<>>, text |-> text]
ConnectionPageInfo(pageInfo) ==
    [k |-> "con", tag |-> "ConnectionPageInfo", vf |-> <<>>, pageInfo |-> pageInfo]
ConnectionEdges(edgeFields) ==
    [k |-> "con", tag |-> "ConnectionEdges", vf |-> <<Pairs("edgeFields")>>, edgeFields |-> edgeFields]

\* data EdgeField b r v
EdgeTypename(text) == [k |-> "con", tag |-> "EdgeTypename", vf |-> <<>>, text |-> text]
EdgeCursor == [k |-> "con", tag |-> "EdgeCursor", vf |-> <<>>]
EdgeNode(annFields) ==
    [k |-> "con", tag |-> "EdgeNode", vf |-> <<Pairs("annFields")>>, annFields |-> annFields]

\* data ComputedFieldScalarSelect b v
ComputedFieldScalarSelect(function, arguments, type, scalarArguments) ==
    [k |-> "con", tag |-> "ComputedFieldScalarSelect", vf |-> <<One("_cfssArguments")>>,
     _cfssFunction |-> function, _cfssArguments |-> arguments, _cfssType |-> type,
     _cfssScalarArguments |-> scalarArguments]

\* data ComputedFieldSelect b r v
CFSScalar(cfsSelect, caseBoolExp) ==
    [k |-> "con", tag |-> "CFSScalar", vf |-> <<One("cfsSelect"), Many("caseBoolExp")>>,
     cfsSelect |-> cfsSelect, caseBoolExp |-> caseBoolExp]
CFSTable(jsonAgg, simpleSelect) ==
    [k |-> "con", tag |-> "CFSTable", vf |-> <<One("simpleSelect")>>,
     jsonAgg |-> jsonAgg, simpleSelect |-> simpleSelect]

\* data AnnRelationSelectG b a
AnnRelationSelectG(name, columnMapping, annSelect) ==
    [k |-> "con", tag |-> "AnnRelationSelectG", vf |-> <<One("_aarAnnSelect")>>,
     _aarRelationshipName |-> name, _aarColumnMapping |-> columnMapping,
     _aarAnnSelect |-> annSelect]

\* data AnnObjectSelectG b r v
AnnObjectSelectG(flds, tableFrom, tableFilter) ==
    [k |-> "con", tag |-> "AnnObjectSelectG", vf |-> <<Pairs("_aosFields"), One("_aosTableFilter")>>,
     _aosFields |-> flds, _aosTableFrom |-> tableFrom, _aosTableFilter |-> tableFilter]

\* data ArraySelectG b r v
ASSimple(sel) == [k |-> "con", tag |-> "ASSimple", vf |-> <<One("sel")>>, sel |-> sel]
ASAggregate(sel) == [k |-> "con", tag |-> "ASAggregate", vf |-> <<One("sel")>>, sel |-> sel]
ASConnection(sel) == [k |-> "con", tag |-> "ASConnection", vf |-> <<One("sel")>>, sel |-> sel]

\* data SourceRelationshipSelection b r vf
SourceRelationshipObject(s) == [tag |-> "SourceRelationshipObject", s |-> s]
SourceRelationshipArray(s) == [tag |-> "SourceRelationshipArray", s |-> s]
SourceRelationshipArrayAggregate(s) == [tag |-> "SourceRelationshipArrayAggregate", s |-> s]

\* data TablePermG b v
TablePerm(filter, limit) ==
    [k |-> "con", tag |-> "TablePerm", vf |-> <<One("_tpFilter")>>, _tpFilter |-> filter, _tpLimit |-> limit]

\* mutant: the default permission carries a filter on a leaf
noTablePermissions_withLeaf == TablePerm(BoolAnd(<<BoolField("owner_id", V(0))>>), Nothing)

noTablePermissions == TablePerm(annBoolExpTrue, Nothing)


\* --------------------------- deriving stock (Functor, Foldable, Traversable)
\* The derived instances act on the fields whose type mentions v, in
\* declaration order, a container element by element, and leave every other
\* field alone.
\* the immediate sub-values held in the field described by d
fieldChildren(x, d) ==
    CASE d.c = "one" -> <<x[d.n]>>
      [] d.c = "list" -> x[d.n]
      [] d.c = "pairs" -> [j \in DOMAIN x[d.n] |-> x[d.n][j].val]

\* the immediate sub-values of x in the order the derived instances visit them
children(x) == Concat([i \in DOMAIN x.vf |-> fieldChildren(x, x.vf[i])])

\* x with the sub-values of the fields i, i + 1, ... replaced, in order, by
\* ys[o + 1], ys[o + 2], ...
RECURSIVE withChildrenFrom(_, _, _, _)
withChildrenFrom(x, ys, i, o) ==
    IF i > Len(x.vf) THEN x
    ELSE LET d == x.vf[i]
             n == Len(fieldChildren(x, d))
             new == CASE d.c = "one" -> ys[o + 1]
                      [] d.c = "list" -> SubSeq(ys, o + 1, o + n)
                      [] d.c = "pairs" ->
                            [j \in 1 .. n |-> [x[d.n][j] EXCEPT !.val = ys[o + j]]]
         IN  withChildrenFrom([x EXCEPT ![d.n] = new], ys, i + 1, o + n)

\* x rebuilt with the same constructor around the sub-values ys
withChildren(x, ys) == withChildrenFrom(x, ys, 1, 0)

Reverse(s) == [i \in DOMAIN s |-> s[Len(s) + 1 - i]]

RECURSIVE fmap(_, _)
RECURSIVE foldMap(_, _)
RECURSIVE traverse(_, _)

\* mutant: the derived map rebuilds a constructor with its sub-values reversed
fmap_reversed(f, x) ==
    IF x.k = "v" THEN V(f[x.x])
    ELSE LET cs == children(x)
             ys == [j \in DOMAIN cs |-> fmap(f, cs[j])]
         IN  IF ys = <<>> THEN x ELSE withChildren(x, Reverse(ys))

\* fmap f x: f is a function on leaf values
fmap(f, x) ==
    IF x.k = "v" THEN V(f[x.x])
    ELSE LET cs == children(x)
             ys == [j \in DOMAIN cs |-> fmap(f, cs[j])]
         IN  IF ys = <<>> THEN x ELSE withChildren(x, ys)

\* mutant: the derived fold visits the sub-values right to left
foldMap_reversed(g, x) ==
    IF x.k = "v" THEN g[x.x]
    ELSE LET cs == children(x)
             ys == [j \in DOMAIN cs |-> foldMap(g, cs[j])]
         IN  IF ys = <<>> THEN <<>> ELSE Concat(Reverse(ys))

\* foldMap g x: g maps a leaf value to an element of the monoid of sequences
foldMap(g, x) ==
    IF x.k = "v" THEN g[x.x]
    ELSE LET cs == children(x)
             ys == [j \in DOMAIN cs |-> foldMap(g, cs[j])]
         IN  IF ys = <<>> THEN <<>> ELSE Concat(ys)

\* foldMap (foldMap g) over a list, NonEmpty or Maybe of foldable values
foldMapList(g, xs) == Concat([i \in DOMAIN xs |-> foldMap(g, xs[i])])

\* traverse f x in the applicative that records the inputs of f in the order
\* of its effects: val is the rebuilt structure, log the leaves as visited.
\* The sub-values are traversed left to right, the effects of each sequenced
\* after those of the ones before it.
traverse(f, x) ==
    IF x.k = "v" THEN [val |-> V(f[x.x]), log |-> <<x.x>>]
    ELSE LET cs == children(x)
             rs == [j \in DOMAIN cs |-> traverse(f, cs[j])]
         IN  IF rs = <<>> THEN [val |-> x, log |-> <<>>]
             ELSE [val |-> withChildren(x, [j \in DOMAIN rs |-> rs[j].val]),
                   log |-> Concat([j \in DOMAIN rs |-> rs[j].log])]

\* toList = foldMap (\a -> [a])
toList(x) == foldMap([i \in LeafDom |-> <<i>>], x)

\* derived Foldable of RemoteRelationshipSelect b, over r
foldMap_RemoteRelationshipSelect(f, rrs) == f[rrs._rrsRelationship]

\* ------------------------------------------------------ Bifoldable instances
RECURSIVE bifoldMap(_, _, _)
RECURSIVE bifoldMapFields(_, _, _)
RECURSIVE bifoldMapAnnSelectG(_, _, _)
RECURSIVE bifoldMapAnnSelectStreamG(_, _, _)
RECURSIVE bifoldMap_QueryDB(_, _, _)
RECURSIVE bifoldMap_ConnectionSelect(_, _, _)
RECURSIVE bifoldMap_AnnFieldG(_, _, _)
RECURSIVE bifoldMap_TableAggregateFieldG(_, _, _)
RECURSIVE bifoldMap_ConnectionField(_, _, _)
RECURSIVE bifoldMap_EdgeField(_, _, _)
RECURSIVE bifoldMap_ComputedFieldSelect(_, _, _)
RECURSIVE bifoldMap_AnnObjectSelectG(_, _, _)
RECURSIVE bifoldMap_ArraySelectG(_, _, _)

\* foldMap (foldMap $ bifoldMap f g) over Fields = [(FieldName, a)]
bifoldMapFields(f, g, flds) ==
    Concat([i \in DOMAIN flds |-> bifoldMap(f, g, flds[i].val)])

\* length = getSum . foldMap (const (Sum 1)): the number of leaves
length(x) == Len(foldMap([i \in LeafDom |-> <<1>>], x))

\* mutant: the permission filter of a select is left out of the fold
bifoldMapAnnSelectG_noPerm(f, g, sel) ==
    bifoldMapFields(f, g, sel._asnFields)
        \o foldMap(g, sel._asnFrom)
        \o foldMap(g, sel._asnArgs)

bifoldMapAnnSelectG(f, g, sel) ==
    bifoldMapFields(f, g, sel._asnFields)
        \o foldMap(g, sel._asnFrom)
        \o foldMap(g, sel._asnPerm)
        \o foldMap(g, sel._asnArgs)

\* mutant: the arguments of a streaming select are folded before its permission
bifoldMapAnnSelectStreamG_argsFirst(f, g, sel) ==
    bifoldMapFields(f, g, sel._assnFields)
        \o foldMap(g, sel._assnFrom)
        \o foldMap(g, sel._assnArgs)
        \o foldMap(g, sel._assnPerm)

bifoldMapAnnSelectStreamG(f, g, sel) ==
    bifoldMapFields(f, g, sel._assnFields)
        \o foldMap(g, sel._assnFrom)
        \o foldMap(g, sel._assnPerm)
        \o foldMap(g, sel._assnArgs)

bifoldMap_QueryDB(f, g, q) ==
    CASE q.tag = "QDBMultipleRows" -> bifoldMapAnnSelectG(f, g, q.sel)
      [] q.tag = "QDBSingleRow" -> bifoldMapAnnSelectG(f, g, q.sel)
      [] q.tag = "QDBAggregation" -> bifoldMapAnnSelectG(f, g, q.sel)
      [] q.tag = "QDBConnection" -> bifoldMap(f, g, q.sel)
      [] q.tag = "QDBStreamMultipleRows" -> bifoldMapAnnSelectStreamG(f, g, q.sel)

\* mutant: the cursor splits of a connection select are left out of the fold
bifoldMap_ConnectionSelect_noSplit(f, g, c) ==
    bifoldMapAnnSelectG(f, g, c._csSelect)

bifoldMap_ConnectionSelect(f, g, c) ==
    foldMapList(g, c._csSplit) \o bifoldMapAnnSelectG(f, g, c._csSelect)

\* mutant: the payload of a remote field is handed to g instead of f
bifoldMap_AnnFieldG_remoteToG(f, g, fld) ==
    CASE fld.tag = "AFColumn" -> foldMap(g, fld.col)
      [] fld.tag = "AFObjectRelation" -> bifoldMap(f, g, fld.objRel._aarAnnSelect)
      [] fld.tag = "AFArrayRelation" -> bifoldMap(f, g, fld.arrRel)
      [] fld.tag = "AFComputedField" -> bifoldMap(f, g, fld.cf)
      [] fld.tag = "AFRemote" -> foldMap_RemoteRelationshipSelect(g, fld.r)
      [] fld.tag = "AFNodeId" -> <<>>
      [] fld.tag = "AFExpression" -> <<>>

bifoldMap_AnnFieldG(f, g, fld) ==
    CASE fld.tag = "AFColumn" -> foldMap(g, fld.col)
      [] fld.tag = "AFObjectRelation" -> bifoldMap(f, g, fld.objRel._aarAnnSelect)
      [] fld.tag = "AFArrayRelation" -> bifoldMap(f, g, fld.arrRel)
      [] fld.tag = "AFComputedField" -> bifoldMap(f, g, fld.cf)
      [] fld.tag = "AFRemote" -> foldMap_RemoteRelationshipSelect(f, fld.r)
      [] fld.tag = "AFNodeId" -> <<>>
      [] fld.tag = "AFExpression" -> <<>>

bifoldMap_TableAggregateFieldG(f, g, taf) ==
    CASE taf.tag = "TAFAgg" -> <<>>
      [] taf.tag = "TAFNodes" -> bifoldMapFields(f, g, taf.fields)
      [] taf.tag = "TAFExp" -> <<>>

bifoldMap_ConnectionField(f, g, cf) ==
    CASE cf.tag = "ConnectionTypename" -> <<>>
      [] cf.tag = "ConnectionPageInfo" -> <<>>
      [] cf.tag = "ConnectionEdges" -> bifoldMapFields(f, g, cf.edgeFields)

bifoldMap_EdgeField(f, g, ef) ==
    CASE ef.tag = "EdgeTypename" -> <<>>
      [] ef.tag = "EdgeCursor" -> <<>>
      [] ef.tag = "EdgeNode" -> bifoldMapFields(f, g, ef.annFields)

bifoldMap_ComputedFieldSelect(f, g, cf) ==
    CASE cf.tag = "CFSScalar" -> foldMap(g, cf.cfsSelect) \o foldMapList(g, cf.caseBoolExp)
      [] cf.tag = "CFSTable" -> bifoldMapAnnSelectG(f, g, cf.simpleSelect)

bifoldMap_AnnObjectSelectG(f, g, os) ==
    bifoldMapFields(f, g, os._aosFields) \o foldMap(g, os._aosTableFilter)

bifoldMap_ArraySelectG(f, g, as) ==
    CASE as.tag = "ASSimple" -> bifoldMapAnnSelectG(f, g, as.sel._aarAnnSelect)
      [] as.tag = "ASAggregate" -> bifoldMapAnnSelectG(f, g, as.sel._aarAnnSelect)
      [] as.tag = "ASConnection" -> bifoldMap(f, g, as.sel._aarAnnSelect)

\* bifoldMap: the instance is chosen by the type, that is by the constructor
bifoldMap(f, g, x) ==
    CASE x.tag \in {"QDBMultipleRows", "QDBSingleRow", "QDBAggregation", "QDBConnection",
                    "QDBStreamMultipleRows"} -> bifoldMap_QueryDB(f, g, x)
      [] x.tag = "ConnectionSelect" -> bifoldMap_ConnectionSelect(f, g, x)
      [] x.tag \in {"AFColumn", "AFObjectRelation", "AFArrayRelation", "AFComputedField",
                    "AFRemote", "AFNodeId", "AFExpression"} -> bifoldMap_AnnFieldG(f, g, x)
      [] x.tag \in {"TAFAgg", "TAFNodes", "TAFExp"} -> bifoldMap_TableAggregateFieldG(f, g, x)
      [] x.tag \in {"ConnectionTypename", "ConnectionPageInfo", "ConnectionEdges"} ->
            bifoldMap_ConnectionField(f, g, x)
      [] x.tag \in {"EdgeTypename", "EdgeCursor", "EdgeNode"} -> bifoldMap_EdgeField(f, g, x)
      [] x.tag \in {"CFSScalar", "CFSTable"} -> bifoldMap_ComputedFieldSelect(f, g, x)
      [] x.tag = "AnnObjectSelectG" -> bifoldMap_AnnObjectSelectG(f, g, x)
      [] x.tag \in {"ASSimple", "ASAggregate", "ASConnection"} -> bifoldMap_ArraySelectG(f, g, x)

\* the two combining functions of a bifold into the free monoid: every
\* occurrence is recorded with the function that received it
InR == [i \in LeafDom |-> <<[c |-> "r", x |-> i]>>]
InV == [i \in LeafDom |-> <<[c |-> "v", x |-> i]>>]

\* ------------------------------------------------------- smart constructors
\* mutant: the two optional parameters change places
mkAnnColumnField_swapped(col, typ, caseBoolExp, colOpM) ==
    AFColumn(AnnColumnField(col, typ, FALSE, caseBoolExp, colOpM))

mkAnnColumnField(col, typ, caseBoolExp, colOpM) ==
    AFColumn(AnnColumnField(col, typ, FALSE, colOpM, caseBoolExp))

\* ColumnInfo b, of which ciColumn and ciType are read
ColumnInfo(column, type) == [ciColumn |-> column, ciType |-> type]

mkAnnColumnFieldAsText(ci) ==
    AFColumn(AnnColumnField(ci.ciColumn, ci.ciType, TRUE, Nothing, Nothing))

\* ------------------------------------------------ construction of IR trees
\* The request parser builds a tree bottom-up.  Every leaf position that is
\* filled receives a fresh marker nv + 1, nv + 2, ...; every remote payload a
\* fresh marker nr + 1.  The markers record where a value was put, so that a
\* pass over the finished tree can be compared with what was put into it.
FieldNames == <<"a", "b", "c", "d", "e", "f">>
SelShapes == 1 .. 4

Ids(b, n) == [i \in 1 .. n |-> b + i]
PermFilter(i) == BoolAnd(<<BoolField("owner_id", V(i))>>)
Item(element) == OrderByItemG("asc", element, "nulls_last")

\* from-clause, permission and arguments of a select of shape d, the leaves
\* numbered from b + 1 in the order from, perm, args; nFrom, nPerm and nArgs
\* are the numbers of leaves put in each
Decor(d, b) ==
    CASE d = 1 ->
            [from |-> FromTable("t"), nFrom |-> 0,
             perm |-> noTablePermissions, nPerm |-> 0,
             args |-> noSelectArgs, nArgs |-> 0]
      [] d = 2 ->
            [from |-> FromFunction("fn", FunctionArgsExp(<<V(b + 1)>>, <<Entry("x", V(b + 2))>>), <<>>),
             nFrom |-> 2,
             perm |-> TablePerm(PermFilter(b + 3), <<10>>), nPerm |-> 1,
             args |-> SelectArgs(
                        Just(PermFilter(b + 4)),
                        <<
                            Item(AOCObjectRelation("rel", PermFilter(b + 5), AOCColumn("c1"))),
                            Item(AOCArrayAggregation("arr", PermFilter(b + 6), AAOCount))>>,
                        <<5>>, <<0>>, <<>>),
             nArgs |-> 3]
      [] d = 3 ->
            [from |-> FromNativeQuery(NativeQuery("nq", <<Entry("p", V(b + 1))>>)), nFrom |-> 1,
             perm |-> noTablePermissions, nPerm |-> 0,
             args |-> SelectArgs(
                        Nothing,
                        <<
                            Item(AOCComputedField(ComputedFieldOrderBy("x", "cf", "fn",
                                FunctionArgsExp(<<V(b + 2)>>, <<>>),
                                CFOBETableAggregation("t2", PermFilter(b + 3),
                                                      AAOOp("max", "int", "c2"))))),
                            Item(AOCObjectRelation("rel", PermFilter(b + 4),
                                AOCObjectRelation("rel2", PermFilter(b + 5), AOCColumn("c3")))),
                            Item(AOCComputedField(ComputedFieldOrderBy("x", "cf2", "fn2",
                                FunctionArgsExp(<<>>, <<>>), CFOBEScalar("int"))))>>,
                        <<>>, <<>>, <<"c1">>),
             nArgs |-> 4]
      [] d = 4 ->
            [from |-> FromIdentifier("ident"), nFrom |-> 0,
             perm |-> TablePerm(PermFilter(b + 1), <<>>), nPerm |-> 1,
             args |-> SelectArgs(Just(BoolAnd(<<PermFilter(b + 2), PermFilter(b + 3)>>)),
                                 Nothing, <<>>, <<7>>, <<>>),
             nArgs |-> 2]

\* arguments of a streaming select of shape d, the leaves numbered from b + 1
StreamArgs(d, b) ==
    IF d \in {2, 4}
    THEN [args |-> SelectStreamArgsG(Just(PermFilter(b + 1)), 100,
                                     StreamCursorItem("asc", "c1", "init")),
          nArgs |-> 1]
    ELSE [args |-> SelectStreamArgsG(Nothing, 100, StreamCursorItem("desc", "c1", "init")),
          nArgs |-> 0]

\* cursor splits of a connection select of shape d, the leaves numbered from b + 1
Splits(d, b) ==
    CASE d \in {1, 4} -> [split |-> Nothing, n |-> 0]
      [] d = 2 ->
            [split |-> <<ConnectionSplit("CSKAfter", V(b + 1), Item(AOCColumn("c1")))>>,
             n |-> 1]
      [] d = 3 ->
            [split |-> <<
                ConnectionSplit("CSKAfter", V(b + 1),
                    Item(AOCObjectRelation("rel", PermFilter(b + 2), AOCColumn("c1")))),
                ConnectionSplit("CSKBefore", V(b + 3), Item(AOCColumn("c2")))>>,
             n |-> 3]

\* the fields of an aggregate select that projects the rows flds
AggregateFieldsOf(flds) ==
    <<Entry("aggregate", TAFAgg("count")), Entry("nodes", TAFNodes("x", flds)),
      Entry("exp", TAFExp("__typename"))>>

\* the fields of a connection select whose edge nodes are flds
ConnectionFieldsOf(flds) ==
    <<Entry("__typename", ConnectionTypename("Conn")),
      Entry("pageInfo", ConnectionPageInfo("hasNextPage")),
      Entry("edges", ConnectionEdges(<<Entry("__typename", EdgeTypename("Edge")),
                                       Entry("cursor", EdgeCursor),
                                       Entry("node", EdgeNode(flds))>>))>>

\* the select of kind "simple", "aggregate", "connection" or "stream" and
\* shape d over the fields flds, with the number of leaves it adds
MkSelect(kind, d, flds, b) ==
    LET dc == Decor(d, b)
        n == dc.nFrom + dc.nPerm + dc.nArgs
        sa == StreamArgs(d, b + dc.nFrom + dc.nPerm)
        sp == Splits(d, b + n)
    IN  CASE kind = "simple" ->
                [sel |-> AnnSelectG(flds, dc.from, dc.perm, dc.args, TRUE, <<>>), n |-> n]
          [] kind = "aggregate" ->
                [sel |-> AnnSelectG(AggregateFieldsOf(flds), dc.from, dc.perm, dc.args, FALSE, <<>>),
                 n |-> n]
          [] kind = "stream" ->
                [sel |-> AnnSelectStreamG("x", flds, dc.from, dc.perm, sa.args, TRUE),
                 n |-> dc.nFrom + dc.nPerm + sa.nArgs]
          [] kind = "connection" ->
                [sel |-> ConnectionSelect("x", <<"id">>, sp.split, <<SliceFirst(d)>>,
                            AnnSelectG(ConnectionFieldsOf(flds), dc.from, dc.perm, dc.args,
                                       FALSE, <<"HasuraCase">>)),
                 n |-> n + sp.n]

NextName == FieldNames[Len(fields) + 1]

CanBuild == pc = "build" /\ steps < MaxSteps

\* ---- fields added to the field list under construction
AddColumn(withCase) ==
    /\ CanBuild
    /\ fields' = Append(fields,
            Entry(NextName, mkAnnColumnField("col1", "int",
                    IF withCase THEN Just(PermFilter(nv + 1)) ELSE Nothing, <<>>)))
    /\ nv' = IF withCase THEN nv + 1 ELSE nv
    /\ steps' = steps + 1
    /\ UNCHANGED <<nr, root, pc, acc, shape, pair, ext>>
    /\ seg' = [seg EXCEPT !.fb = Append(@, nv')]

AddComputedScalar ==
    /\ CanBuild
    /\ fields' = Append(fields,
            Entry(NextName, AFComputedField("x", "cf",
                CFSScalar(ComputedFieldScalarSelect("fn", FunctionArgsExp(<<V(nv + 1)>>, <<>>),
                                                    "int", <<>>),
                          Just(PermFilter(nv + 2))))))
    /\ nv' = nv + 2
    /\ steps' = steps + 1
    /\ UNCHANGED <<nr, root, pc, acc, shape, pair, ext>>
    /\ seg' = [seg EXCEPT !.fb = Append(@, nv')]

AddRemote ==
    /\ CanBuild
    /\ fields' = Append(fields,
            Entry(NextName, AFRemote(RemoteRelationshipSelect(<<"id">>, nr + 1))))
    /\ nr' = nr + 1
    /\ steps' = steps + 1
    /\ UNCHANGED <<nv, root, pc, acc, shape, pair, ext>>
    /\ seg' = [seg EXCEPT !.fb = Append(@, nv)]

AddNodeId ==
    /\ CanBuild
    /\ fields' = Append(fields, Entry(NextName, AFNodeId("x", "default", "t", <<"id">>)))
    /\ steps' = steps + 1
    /\ UNCHANGED <<nv, nr, root, pc, acc, shape, pair, ext>>
    /\ seg' = [seg EXCEPT !.fb = Append(@, nv)]

AddExpression ==
    /\ CanBuild
    /\ fields' = Append(fields, Entry(NextName, AFExpression("__typename")))
    /\ steps' = steps + 1
    /\ UNCHANGED <<nv, nr, root, pc, acc, shape, pair, ext>>
    /\ seg' = [seg EXCEPT !.fb = Append(@, nv)]

\* ---- the field list under construction becomes the selection of one field
\* (a selection set has at least one field)
WrapObjectRelation(withFilter) ==
    /\ CanBuild
    /\ fields # <<>>
    /\ fields' = <<Entry(FieldNames[1], AFObjectRelation(AnnRelationSelectG("obj", <<"id">>,
                        AnnObjectSelectG(fields, "t",
                            IF withFilter THEN PermFilter(nv + 1) ELSE annBoolExpTrue))))>>
    /\ nv' = IF withFilter THEN nv + 1 ELSE nv
    /\ steps' = steps + 1
    /\ UNCHANGED <<nr, root, pc, acc, shape, pair, ext>>
    /\ seg' = [seg EXCEPT !.fb = <<nv'>>]

WrapArrayRelation(kind) ==
    /\ CanBuild
    /\ fields # <<>>
    /\ LET m == MkSelect(kind, shape, fields, nv)
           rel == AnnRelationSelectG("arr", <<"id">>, m.sel)
       IN  /\ fields' = <<Entry(FieldNames[1], AFArrayRelation(
                            CASE kind = "simple" -> ASSimple(rel)
                              [] kind = "aggregate" -> ASAggregate(rel)
                              [] kind = "connection" -> ASConnection(rel)))>>
           /\ nv' = nv + m.n
    /\ steps' = steps + 1
    /\ UNCHANGED <<nr, root, pc, acc, shape, pair, ext>>
    /\ seg' = [seg EXCEPT !.fb = <<nv'>>]

WrapComputedTable ==
    /\ CanBuild
    /\ fields # <<>>
    /\ LET m == MkSelect("simple", shape, fields, nv)
       IN  /\ fields' = <<Entry(FieldNames[1], AFComputedField("x", "cft",
                            CFSTable("JASMultipleRows", m.sel)))>>
           /\ nv' = nv + m.n
    /\ steps' = steps + 1
    /\ UNCHANGED <<nr, root, pc, acc, shape, pair, ext>>
    /\ seg' = [seg EXCEPT !.fb = <<nv'>>]

\* ---- the root of the tree
RootKinds == {"QDBMultipleRows", "QDBSingleRow", "QDBAggregation", "QDBConnection",
              "QDBStreamMultipleRows"}

Finish(variant) ==
    /\ pc = "build"
    /\ fields # <<>>
    /\ LET kind == CASE variant \in {"QDBMultipleRows", "QDBSingleRow"} -> "simple"
                     [] variant = "QDBAggregation" -> "aggregate"
                     [] variant = "QDBConnection" -> "connection"
                     [] variant = "QDBStreamMultipleRows" -> "stream"
           m == MkSelect(kind, shape, fields, nv)
           dc == Decor(shape, nv)
           nArgs == IF kind = "stream" THEN StreamArgs(shape, nv).nArgs ELSE dc.nArgs
       IN  /\ root' = <<CASE variant = "QDBMultipleRows" -> QDBMultipleRows(m.sel)
                          [] variant = "QDBSingleRow" -> QDBSingleRow(m.sel)
                          [] variant = "QDBAggregation" -> QDBAggregation(m.sel)
                          [] variant = "QDBConnection" -> QDBConnection(m.sel)
                          [] variant = "QDBStreamMultipleRows" -> QDBStreamMultipleRows(m.sel)>>
           /\ nv' = nv + m.n
           /\ seg' = [fb |-> seg.fb, nf |-> nv,
                      from |-> Ids(nv, dc.nFrom),
                      perm |-> Ids(nv + dc.nFrom, dc.nPerm),
                      args |-> Ids(nv + dc.nFrom + dc.nPerm, nArgs),
                      split |-> Ids(nv + dc.nFrom + dc.nPerm + nArgs,
                                    m.n - (dc.nFrom + dc.nPerm + nArgs))]
    /\ pc' = "ready"
    /\ UNCHANGED <<fields, nr, steps, acc, shape, pair, ext>>

\* ---- a remote field with payload p (one already used in the field list, or
\* a fresh one) next to a remote-source relationship whose object selection is
\* the field list under construction; both are folded with the same f and g
Pair(p, withFilter) ==
    /\ pc = "build"
    /\ fields # <<>>
    /\ LET remote == AFRemote(RemoteRelationshipSelect(<<"id">>, p))
           sel == AnnObjectSelectG(fields, "t2",
                      IF withFilter THEN PermFilter(nv + 1) ELSE annBoolExpTrue)
       IN  /\ pair' = <<[remote |-> remote, source |-> SourceRelationshipObject(sel), p |-> p]>>
           /\ acc' = [remote |-> bifoldMap(InR, InV, remote),
                      source |-> bifoldMap(InR, InV, sel)]
    /\ nv' = IF withFilter THEN nv + 1 ELSE nv
    /\ pc' = "paired"
    /\ UNCHANGED <<fields, nr, steps, root, seg, shape, ext>>

\* ---- the passes over a finished tree
SubstNames == {"id", "succ", "zero"}
Subst(name) ==
    CASE name = "id" -> [i \in LeafDom |-> i]
      [] name = "succ" -> [i \in LeafDom |-> (i + 1) % MaxLeaf]
      [] name = "zero" -> [i \in LeafDom |-> 0]
Compose(g, f) == [i \in LeafDom |-> g[f[i]]]

\* bifoldMap f g on the root
Bifold ==
    /\ pc = "ready"
    /\ acc' = bifoldMap(InR, InV, root[1])
    /\ pc' = "folded"
    /\ UNCHANGED <<fields, nv, nr, steps, root, seg, shape, pair, ext>>

\* traverse f on the root
Traverse(name) ==
    /\ pc = "ready"
    /\ acc' = [f |-> name] @@ traverse(Subst(name), root[1])
    /\ pc' = "traversed"
    /\ UNCHANGED <<fields, nv, nr, steps, root, seg, shape, pair, ext>>

\* fmap f on the root, and fmap g on the result
MapPairs == {<<"id", "succ">>, <<"succ", "zero">>}
Fmap(f, g) ==
    /\ pc = "ready"
    /\ LET once == fmap(Subst(f), root[1])
       IN  acc' = [f |-> f, g |-> g, once |-> once, twice |-> fmap(Subst(g), once)]
    /\ pc' = "mapped"
    /\ UNCHANGED <<fields, nv, nr, steps, root, seg, shape, pair, ext>>

InitIR ==
    /\ fields = <<>>
    /\ nv = 0
    /\ nr = 0
    /\ steps = 0
    /\ root = <<>>
    /\ seg = [fb |-> <<>>, nf |-> 0, from |-> <<>>, perm |-> <<>>, args |-> <<>>, split |-> <<>>]
    /\ pc = "build"
    /\ acc = <<>>
    /\ shape \in SelShapes
    /\ pair = <<>>
    /\ ob = <<>>
    /\ bulk = <<>>
    /\ call = <<>>

\* no IR tree is under construction
IdleIR ==
    /\ fields = <<>>
    /\ nv = 0
    /\ nr = 0
    /\ steps = 0
    /\ root = <<>>
    /\ seg = <<>>
    /\ pc = "idle"
    /\ acc = <<>>
    /\ shape = 1
    /\ pair = <<>>

Build ==
    \/ \E c \in BOOLEAN : AddColumn(c)
    \/ AddComputedScalar
    \/ AddRemote
    \/ AddNodeId
    \/ AddExpression
    \/ \E c \in BOOLEAN : WrapObjectRelation(c)
    \/ \E kind \in {"simple", "aggregate", "connection"} : WrapArrayRelation(kind)
    \/ WrapComputedTable
    \/ \E variant \in RootKinds : Finish(variant)

NextIR ==
    \/ Build
    \/ \E p \in 1 .. (nr + 1), c \in BOOLEAN : Pair(p, c)
    \/ Bifold
    \/ \E name \in SubstNames \ {"id"} : Traverse(name)

Init == InitIR
Next == NextIR
Spec == Init /\ [][Next]_vars

\* construction of a tree and the derived Functor passes over it
NextFunctor ==
    \/ Build
    \/ \E p \in MapPairs : Fmap(p[1], p[2])
SpecFunctor == Init /\ [][NextFunctor]_vars

\* ------------------------------------------------ Hasura.Server.API.V2Query
\* data RQLQuery: a query is a record with its constructor in tag; the run_sql
\* queries carry what isSchemaCacheBuildRequiredRunSQL finds in them, the two
\* bulk constructors the list of their queries
RQ(tag) == [tag |-> tag]
RQSql(tag, rebuild) == [tag |-> tag, rebuild |-> rebuild]
RQBulk(l) == [tag |-> "RQBulk", l |-> l]
RQConcurrentBulk(l) == [tag |-> "RQConcurrentBulk", l |-> l]
IsBulk(q) == q.tag \in {"RQBulk", "RQConcurrentBulk"}

\* Postgres. / MSSQL.isSchemaCacheBuildRequiredRunSQL
isSchemaCacheBuildRequiredRunSQL(q) == q.rebuild

RECURSIVE queryModifiesSchema(_)
\* mutant: the queries of a nested bulk are not looked into
queryModifiesSchema_shallow(q) ==
    CASE q.tag \in {"RQRunSql", "RQCitusRunSql", "RQCockroachRunSql", "RQMssqlRunSql"} ->
            isSchemaCacheBuildRequiredRunSQL(q)
      [] q.tag = "RQBulk" -> FALSE
      [] q.tag = "RQConcurrentBulk" -> \E i \in DOMAIN q.l : queryModifiesSchema(q.l[i])
      [] OTHER -> FALSE

queryModifiesSchema(q) ==
    CASE q.tag \in {"RQInsert", "RQSelect", "RQUpdate", "RQDelete", "RQCount"} -> FALSE
      [] q.tag \in {"RQRunSql", "RQCitusRunSql", "RQCockroachRunSql", "RQMssqlRunSql"} ->
            isSchemaCacheBuildRequiredRunSQL(q)
      [] q.tag \in {"RQMysqlRunSql", "RQBigqueryRunSql", "RQDataConnectorRunSql",
                    "RQBigqueryDatabaseInspection"} -> FALSE
      [] q.tag = "RQBulk" -> \E i \in DOMAIN q.l : queryModifiesSchema(q.l[i])
      [] q.tag = "RQConcurrentBulk" -> \E i \in DOMAIN q.l : queryModifiesSchema(q.l[i])

RECURSIVE queryModifiesUserDB(_)
queryModifiesUserDB(q) ==
    CASE q.tag \in {"RQInsert", "RQUpdate", "RQDelete"} -> TRUE
      [] q.tag \in {"RQSelect", "RQCount"} -> FALSE
      [] q.tag \in {"RQRunSql", "RQCitusRunSql", "RQCockroachRunSql", "RQMssqlRunSql",
                    "RQMysqlRunSql", "RQBigqueryRunSql", "RQDataConnectorRunSql"} -> TRUE
      [] q.tag = "RQBigqueryDatabaseInspection" -> FALSE
      [] q.tag = "RQBulk" -> \E i \in DOMAIN q.l : queryModifiesUserDB(q.l[i])
      [] q.tag = "RQConcurrentBulk" -> FALSE

\* the positions of the queries nested in q (<<>> is q itself, <<i>> the
\* i-th query of its list, ...) and the query at a position
RECURSIVE Paths(_)
Paths(q) ==
    {<<>>} \cup (IF IsBulk(q)
                 THEN UNION {{<<i>> \o p : p \in Paths(q.l[i])} : i \in DOMAIN q.l}
                 ELSE {})
RECURSIVE NodeAt(_, _)
NodeAt(q, p) == IF p = <<>> THEN q ELSE NodeAt(q.l[Head(p)], Tail(p))
Parent(p) == SubSeq(p, 1, Len(p) - 1)
ChildrenOf(q, p) == {p \o <<i>> : i \in DOMAIN NodeAt(q, p).l}

\* the queries a request may hold
LeafQueries ==
    {RQ("RQSelect"), RQ("RQMysqlRunSql"), RQSql("RQRunSql", FALSE), RQSql("RQRunSql", TRUE),
     RQSql("RQMssqlRunSql", TRUE)}

\* ---- the request body is parsed into an RQLQuery
QAddLeaf(q) ==
    /\ bulk.phase = "parse"
    /\ bulk.n < MaxQuerySteps
    /\ bulk' = [bulk EXCEPT !.qs = Append(@, q), !.n = @ + 1]
    /\ UNCHANGED <<irVars, ob, call>>

QWrap(tag) ==
    /\ bulk.phase = "parse"
    /\ bulk.n < MaxQuerySteps
    /\ bulk' = [bulk EXCEPT !.qs = <<[tag |-> tag, l |-> bulk.qs]>>, !.n = @ + 1]
    /\ UNCHANGED <<irVars, ob, call>>

\* runQuery receives the request; nothing has run yet
QSubmit(tag) ==
    /\ bulk.phase = "parse"
    /\ LET rq == [tag |-> tag, l |-> bulk.qs]
       IN  bulk' = [bulk EXCEPT !.phase = "run", !.rq = <<rq>>,
                                !.run = [p \in Paths(rq) |-> "pending"]]
    /\ UNCHANGED <<irVars, ob, call>>

\* ---- runQueryM env rq, one step per query entered or left
\* runQueryM is entered for the query at p: the request itself, the next query
\* of a running RQBulk (indexedMapM runs them in order) or any query of a
\* running RQConcurrentBulk (mapConcurrently).  An RQConcurrentBulk that
\* modifies the schema throws before anything else is done.
QStart(p) ==
    /\ bulk.phase = "run"
    /\ p \in DOMAIN bulk.run
    /\ bulk.run[p] = "pending"
    /\ \/ p = <<>>
       \/ /\ p # <<>>
          /\ bulk.run[Parent(p)] = "running"
          /\ \/ NodeAt(bulk.rq[1], Parent(p)).tag = "RQConcurrentBulk"
             \/ \A i \in 1 .. (p[Len(p)] - 1) : bulk.run[Parent(p) \o <<i>>] = "done"
    /\ LET q == NodeAt(bulk.rq[1], p)
       IN  bulk' = [bulk EXCEPT !.run[p] =
                        IF q.tag = "RQConcurrentBulk" /\ queryModifiesSchema(q)
                        THEN "error500" ELSE "running"]
    /\ UNCHANGED <<irVars, ob, call>>

\* a query that is not a bulk returns its result
QLeafDone(p) ==
    /\ bulk.phase = "run"
    /\ p \in DOMAIN bulk.run
    /\ bulk.run[p] = "running"
    /\ ~IsBulk(NodeAt(bulk.rq[1], p))
    /\ bulk' = [bulk EXCEPT !.run[p] = "done"]
    /\ UNCHANGED <<irVars, ob, call>>

\* encJFromList <$> ...: every query of the list has returned
QBulkDone(p) ==
    /\ bulk.phase = "run"
    /\ p \in DOMAIN bulk.run
    /\ bulk.run[p] = "running"
    /\ IsBulk(NodeAt(bulk.rq[1], p))
    /\ \A c \in ChildrenOf(bulk.rq[1], p) : bulk.run[c] = "done"
    /\ bulk' = [bulk EXCEPT !.run[p] = "done"]
    /\ UNCHANGED <<irVars, ob, call>>

\* the error thrown by a query of the list leaves the bulk
QBulkFailed(p) ==
    /\ bulk.phase = "run"
    /\ p \in DOMAIN bulk.run
    /\ bulk.run[p] = "running"
    /\ IsBulk(NodeAt(bulk.rq[1], p))
    /\ \E c \in ChildrenOf(bulk.rq[1], p) : bulk.run[c] \in {"error500", "failed"}
    /\ bulk' = [bulk EXCEPT !.run[p] = "failed"]
    /\ UNCHANGED <<irVars, ob, call>>

InitBulk ==
    /\ IdleIR
    /\ ob = <<>>
    /\ bulk = [phase |-> "parse", qs |-> <<>>, n |-> 0, rq |-> <<>>, run |-> <<>>]
    /\ call = <<>>

NextBulk ==
    \/ \E q \in LeafQueries : QAddLeaf(q)
    \/ \E tag \in {"RQBulk", "RQConcurrentBulk"} : QWrap(tag)
    \/ \E tag \in {"RQBulk", "RQConcurrentBulk"} : QSubmit(tag)
    \/ \E p \in DOMAIN bulk.run : QStart(p)
    \/ \E p \in DOMAIN bulk.run : QLeafDone(p)
    \/ \E p \in DOMAIN bulk.run : QBulkDone(p)
    \/ \E p \in DOMAIN bulk.run : QBulkFailed(p)
SpecBulk == InitBulk /\ [][NextBulk]_vars

\* ------------------------------------------------- instance FromJSON RQLQuery
\* A Text is the sequence of its characters.  The type names the parser knows:
TypeName ==
    [insert |-> <<"i", "n", "s", "e", "r", "t">>,
     select |-> <<"s", "e", "l", "e", "c", "t">>,
     update |-> <<"u", "p", "d", "a", "t", "e">>,
     delete |-> <<"d", "e", "l", "e", "t", "e">>,
     count |-> <<"c", "o", "u", "n", "t">>,
     run_sql |-> <<"r", "u", "n", "_", "s", "q", "l">>,
     pg_run_sql |-> <<"p", "g", "_", "r", "u", "n", "_", "s", "q", "l">>,
     mssql_run_sql |-> <<"m", "s", "s", "q", "l", "_", "r", "u", "n", "_", "s", "q", "l">>,
     citus_run_sql |-> <<"c", "i", "t", "u", "s", "_", "r", "u", "n", "_", "s", "q", "l">>,
     cockroach_run_sql |-> <<"c", "o", "c", "k", "r", "o", "a", "c", "h", "_", "r", "u", "n", "_", "s", "q", "l">>,
     mysql_run_sql |-> <<"m", "y", "s", "q", "l", "_", "r", "u", "n", "_", "s", "q", "l">>,
     bigquery_run_sql |-> <<"b", "i", "g", "q", "u", "e", "r", "y", "_", "r", "u", "n", "_", "s", "q", "l">>,
     bigquery_database_inspection |-> <<"b", "i", "g", "q", "u", "e", "r", "y", "_", "d", "a", "t", "a", "b", "a", "s", "e", "_", "i", "n", "s", "p", "e", "c", "t", "i", "o", "n">>,
     bulk |-> <<"b", "u", "l", "k">>,
     concurrent_bulk |-> <<"c", "o", "n", "c", "u", "r", "r", "e", "n", "t", "_", "b", "u", "l", "k">>]
\* the values of "type" tried: the known ones and some others
TypeTexts ==
    {TypeName[n] : n \in DOMAIN TypeName} \cup
    {<<"s", "q", "l", "i", "t", "e", "_", "r", "u", "n", "_", "s", "q", "l">>,
     <<"m", "y", "_", "d", "b", "_", "r", "u", "n", "_", "s", "q", "l">>,
     <<"9", "d", "b", "_", "r", "u", "n", "_", "s", "q", "l">>,
     <<"_", "r", "u", "n", "_", "s", "q", "l">>,
     <<"r", "u", "n", "_", "s", "q", "l", "_", "x">>,
     <<"I", "n", "s", "e", "r", "t">>,
     <<"e", "x", "p", "o", "r", "t", "_", "m", "e", "t", "a", "d", "a", "t", "a">>,
     <<>>}

\* T.stripSuffix suffix t
stripSuffix(suffix, t) ==
    IF Len(t) >= Len(suffix) /\ SubSeq(t, Len(t) - Len(suffix) + 1, Len(t)) = suffix
    THEN Just(SubSeq(t, 1, Len(t) - Len(suffix)))
    ELSE Nothing

\* GQL.mkName: a GraphQL name is a letter or underscore followed by letters,
\* digits and underscores
NameStart ==
    {"_", "a", "b", "c", "d", "e", "f", "g", "h", "i", "j", "k", "l", "m", "n", "o", "p", "q", "r", "s", "t", "u", "v", "w", "x", "y", "z",
     "A", "B", "C", "D", "E", "F", "G", "H", "I", "J", "K", "L", "M", "N", "O", "P", "Q", "R", "S", "T", "U", "V", "W", "X", "Y", "Z"}
Digits == {"0", "1", "2", "3", "4", "5", "6", "7", "8", "9"}
mkName(t) ==
    IF t # <<>> /\ t[1] \in NameStart /\ \A i \in DOMAIN t : t[i] \in NameStart \cup Digits
    THEN Just(t)
    ELSE Nothing

\* mkDataConnectorName: Right for the names in valid, Left for the others
mkDataConnectorName(valid, name) == IF name \in valid THEN Just(name) ELSE Nothing

\* T.stripSuffix "_run_sql" >=> GQL.mkName >=> preview _Right . mkDataConnectorName
dcNameFromRunSql(valid, t) ==
    LET stripped == stripSuffix(<<"_", "r", "u", "n", "_", "s", "q", "l">>, t)
        name == IF stripped = Nothing THEN Nothing ELSE mkName(stripped[1])
    IN  IF name = Nothing THEN Nothing ELSE mkDataConnectorName(valid, name[1])

Parsed(q) == [ok |-> TRUE, q |-> q]
ParseError(msg) == [ok |-> FALSE, msg |-> msg]
RQDataConnectorRunSql(name) == [tag |-> "RQDataConnectorRunSql", name |-> name]

\* what the case on t selects; the arguments are parsed afterwards
\* mutant: the data connector pattern is tried before the built-in names
caseOfType_connectorFirst(valid, t) ==
    IF dcNameFromRunSql(valid, t) # Nothing
    THEN Parsed(RQDataConnectorRunSql(dcNameFromRunSql(valid, t)[1]))
    ELSE IF \E n \in DOMAIN TypeName : TypeName[n] = t
    THEN Parsed(RQ("RQSelect"))
    ELSE ParseError(<<"Unrecognised RQLQuery type: ", t>>)

caseOfType(valid, t) ==
    CASE t = TypeName.insert -> Parsed(RQ("RQInsert"))
      [] t = TypeName.select -> Parsed(RQ("RQSelect"))
      [] t = TypeName.update -> Parsed(RQ("RQUpdate"))
      [] t = TypeName.delete -> Parsed(RQ("RQDelete"))
      [] t = TypeName.count -> Parsed(RQ("RQCount"))
      [] t = TypeName.run_sql -> Parsed(RQ("RQRunSql"))
      [] t = TypeName.pg_run_sql -> Parsed(RQ("RQRunSql"))
      [] t = TypeName.mssql_run_sql -> Parsed(RQ("RQMssqlRunSql"))
      [] t = TypeName.citus_run_sql -> Parsed(RQ("RQCitusRunSql"))
      [] t = TypeName.cockroach_run_sql -> Parsed(RQ("RQCockroachRunSql"))
      [] t = TypeName.mysql_run_sql -> Parsed(RQ("RQMysqlRunSql"))
      [] t = TypeName.bigquery_run_sql -> Parsed(RQ("RQBigqueryRunSql"))
      [] OTHER ->
            IF dcNameFromRunSql(valid, t) # Nothing
            THEN Parsed(RQDataConnectorRunSql(dcNameFromRunSql(valid, t)[1]))
            ELSE CASE t = TypeName.bigquery_database_inspection ->
                            Parsed(RQ("RQBigqueryDatabaseInspection"))
                   [] t = TypeName.bulk -> Parsed(RQ("RQBulk"))
                   [] t = TypeName.concurrent_bulk -> Parsed(RQ("RQConcurrentBulk"))
                   [] OTHER -> ParseError(<<"Unrecognised RQLQuery type: ", t>>)

\* parseJSON = withObject "RQLQuery" \o -> ...: o has its "type" in type (if
\* it has one) and argsOk tells whether o .: "args" parses
parseJSON(valid, o) ==
    IF o.type = Nothing THEN ParseError(<<"key \"type\" not found">>)
    ELSE LET r == caseOfType(valid, o.type[1])
         IN  IF r.ok /\ ~o.argsOk THEN ParseError(<<"args">>) ELSE r

\* the names mkDataConnectorName may accept
ConnectorNames ==
    {<<"s", "q", "l", "i", "t", "e">>, <<"m", "y", "_", "d", "b">>, <<"m", "s", "s", "q", "l">>}

ParseJSON ==
    /\ call.st = "called"
    /\ call' = [call EXCEPT !.st = "returned", !.result = <<parseJSON(call.valid, call.o)>>]
    /\ UNCHANGED <<irVars, ob, bulk>>

InitParse ==
    /\ IdleIR
    /\ ob = <<>>
    /\ bulk = <<>>
    /\ \E valid \in SUBSET ConnectorNames, argsOk \in BOOLEAN,
          type \in {Nothing} \cup {Just(t) : t \in TypeTexts} :
            call = [st |-> "called", valid |-> valid, o |-> [type |-> type, argsOk |-> argsOk],
                    result |-> <<>>]

NextParse == ParseJSON
SpecParse == InitParse /\ [][NextParse]_vars

\* ------------------------------------------------------------------ runQuery
\* One request handled by runQuery.  bulk holds, next to the request and the
\* progress of runQueryM: the two modes of the server configuration, the
\* metadata storage (resource version and metadata), what fetchMetadata
\* returned, the calls made to the storage (ev), and the reply.
ErrReadOnly == [code |-> 400, msg |-> "Cannot run write queries when read-only mode is enabled"]
ErrMaintenance == [code |-> 500, msg |-> "metadata cannot be modified in maintenance mode"]
ErrConcurrentBulk == [code |-> 500, msg |-> "Only read-only queries are allowed in a concurrent_bulk"]
\* an error of the query itself, or of the metadata storage
ErrQuery == [code |-> 400, msg |-> "query failed"]
ErrStorage == [code |-> 500, msg |-> "metadata storage failed"]
Replied(r) == [ok |-> FALSE, err |-> r, cache |-> <<>>]

RunLeafQueries ==
    {RQ("RQSelect"), RQ("RQInsert"), RQSql("RQRunSql", FALSE), RQSql("RQRunSql", TRUE)}

\* the schema-modifying queries that have returned: what the run did to the
\* metadata it was given
UpdatedMetadata ==
    [base |-> bulk.fetched[1].meta,
     changes |-> {p \in DOMAIN bulk.run :
                    /\ bulk.run[p] = "done"
                    /\ ~IsBulk(NodeAt(bulk.rq[1], p))
                    /\ queryModifiesSchema(NodeAt(bulk.rq[1], p))}]

\* mutant: runQuery without its read-only check
RSubmit_noReadOnlyCheck(kind) ==
    /\ bulk.phase = "parse"
    /\ bulk.qs # <<>>
    /\ kind = "single" => Len(bulk.qs) = 1
    /\ LET rq == IF kind = "single" THEN bulk.qs[1] ELSE [tag |-> kind, l |-> bulk.qs]
       IN  bulk' = [bulk EXCEPT !.rq = <<rq>>, !.run = [p \in Paths(rq) |-> "pending"],
                                !.phase = "fetch"]
    /\ UNCHANGED <<irVars, ob, call>>

\* runQuery receives the parsed request: the read-only check
RSubmit(kind) ==
    /\ bulk.phase = "parse"
    /\ bulk.qs # <<>>
    /\ kind = "single" => Len(bulk.qs) = 1
    /\ LET rq == IF kind = "single" THEN bulk.qs[1] ELSE [tag |-> kind, l |-> bulk.qs]
           b == [bulk EXCEPT !.rq = <<rq>>, !.run = [p \in Paths(rq) |-> "pending"]]
       IN  IF bulk.readOnly /\ queryModifiesUserDB(rq)
           THEN bulk' = [b EXCEPT !.phase = "replied", !.reply = <<Replied(ErrReadOnly)>>]
           ELSE bulk' = [b EXCEPT !.phase = "fetch"]
    /\ UNCHANGED <<irVars, ob, call>>

\* (metadata, currentResourceVersion) <- liftEitherM fetchMetadata
RFetchMetadata(ok) ==
    /\ bulk.phase = "fetch"
    /\ bulk' = IF ok
               THEN [bulk EXCEPT !.phase = "run", !.fetched = <<bulk.storage>>,
                                 !.ev = Append(@, [op |-> "fetchMetadata"])]
               ELSE [bulk EXCEPT !.phase = "replied", !.reply = <<Replied(ErrStorage)>>,
                                 !.ev = Append(@, [op |-> "fetchMetadata"])]
    /\ UNCHANGED <<irVars, ob, call>>

\* a query that is not a bulk throws
QLeafFailed(p) ==
    /\ bulk.phase = "run"
    /\ p \in DOMAIN bulk.run
    /\ bulk.run[p] = "running"
    /\ ~IsBulk(NodeAt(bulk.rq[1], p))
    /\ bulk' = [bulk EXCEPT !.run[p] = "failed"]
    /\ UNCHANGED <<irVars, ob, call>>

\* runQueryM threw: the error leaves runQuery
RQueryFailed(e) ==
    /\ bulk.phase = "run"
    /\ bulk.run[<<>>] \in {"failed", "error500"}
    /\ \/ e = ErrConcurrentBulk /\ \E p \in DOMAIN bulk.run : bulk.run[p] = "error500"
       \/ e = ErrQuery /\ \E p \in DOMAIN bulk.run :
                              bulk.run[p] = "failed" /\ ~IsBulk(NodeAt(bulk.rq[1], p))
    /\ bulk' = [bulk EXCEPT !.phase = "replied", !.reply = <<Replied(e)>>]
    /\ UNCHANGED <<irVars, ob, call>>

\* mutant: withReload without the maintenance mode case
RQueryDone_noMaintenance ==
    /\ bulk.phase = "run"
    /\ bulk.run[<<>>] = "done"
    /\ bulk' = IF queryModifiesSchema(bulk.rq[1])
               THEN [bulk EXCEPT !.phase = "setMetadata", !.updated = <<UpdatedMetadata>>]
               ELSE [bulk EXCEPT !.phase = "replied",
                                 !.reply = <<[ok |-> TRUE, err |-> <<>>,
                                              cache |-> <<UpdatedMetadata>>]>>]
    /\ UNCHANGED <<irVars, ob, call>>

\* runQueryM returned: withReload currentResourceVersion result, up to its
\* first call of the storage
RQueryDone ==
    /\ bulk.phase = "run"
    /\ bulk.run[<<>>] = "done"
    /\ bulk' = IF queryModifiesSchema(bulk.rq[1])
               THEN IF bulk.maintenance
                    THEN [bulk EXCEPT !.phase = "replied", !.reply = <<Replied(ErrMaintenance)>>]
                    ELSE [bulk EXCEPT !.phase = "setMetadata", !.updated = <<UpdatedMetadata>>]
               ELSE [bulk EXCEPT !.phase = "replied",
                                 !.reply = <<[ok |-> TRUE, err |-> <<>>,
                                              cache |-> <<UpdatedMetadata>>]>>]
    /\ UNCHANGED <<irVars, ob, call>>

\* mutant: setMetadata is given the version after the one fetched
RSetMetadata_nextVersion(ok) ==
    /\ bulk.phase = "setMetadata"
    /\ LET e == [op |-> "setMetadata", rv |-> bulk.fetched[1].rv + 1, meta |-> bulk.updated[1]]
       IN  bulk' = IF ok
                   THEN [bulk EXCEPT !.phase = "notify", !.ev = Append(@, e),
                                     !.storage = [rv |-> @.rv + 1, meta |-> bulk.updated[1]],
                                     !.newRv = <<bulk.storage.rv + 1>>]
                   ELSE [bulk EXCEPT !.phase = "replied", !.ev = Append(@, e),
                                     !.reply = <<Replied(ErrStorage)>>]
    /\ UNCHANGED <<irVars, ob, call>>

\* newResourceVersion <- liftEitherM $ setMetadata currentResourceVersion updatedMetadata
RSetMetadata(ok) ==
    /\ bulk.phase = "setMetadata"
    /\ LET e == [op |-> "setMetadata", rv |-> bulk.fetched[1].rv, meta |-> bulk.updated[1]]
       IN  bulk' = IF ok
                   THEN [bulk EXCEPT !.phase = "notify", !.ev = Append(@, e),
                                     !.storage = [rv |-> @.rv + 1, meta |-> bulk.updated[1]],
                                     !.newRv = <<bulk.storage.rv + 1>>]
                   ELSE [bulk EXCEPT !.phase = "replied", !.ev = Append(@, e),
                                     !.reply = <<Replied(ErrStorage)>>]
    /\ UNCHANGED <<irVars, ob, call>>

\* liftEitherM $ notifySchemaCacheSync newResourceVersion instanceId invalidations,
\* then pure (result, updatedCache)
RNotify(ok) ==
    /\ bulk.phase = "notify"
    /\ LET e == [op |-> "notifySchemaCacheSync", rv |-> bulk.newRv[1]]
       IN  bulk' = IF ok
                   THEN [bulk EXCEPT !.phase = "replied", !.ev = Append(@, e),
                                     !.reply = <<[ok |-> TRUE, err |-> <<>>,
                                                  cache |-> bulk.updated]>>]
                   ELSE [bulk EXCEPT !.phase = "replied", !.ev = Append(@, e),
                                     !.reply = <<Replied(ErrStorage)>>]
    /\ UNCHANGED <<irVars, ob, call>>

InitRun ==
    /\ IdleIR
    /\ ob = <<>>
    /\ call = <<>>
    /\ \E ro \in BOOLEAN, mm \in BOOLEAN :
        bulk = [phase |-> "parse", qs |-> <<>>, n |-> 0, rq |-> <<>>, run |-> <<>>,
                readOnly |-> ro, maintenance |-> mm,
                storage |-> [rv |-> 1, meta |-> "m1"], fetched |-> <<>>, updated |-> <<>>,
                newRv |-> <<>>, ev |-> <<>>, reply |-> <<>>]

NextRun ==
    \/ \E q \in RunLeafQueries : QAddLeaf(q)
    \/ \E tag \in {"RQBulk", "RQConcurrentBulk"} : QWrap(tag)
    \/ \E kind \in {"single", "RQBulk", "RQConcurrentBulk"} : RSubmit(kind)
    \/ \E ok \in BOOLEAN : RFetchMetadata(ok)
    \/ \E p \in DOMAIN bulk.run : QStart(p)
    \/ \E p \in DOMAIN bulk.run : QLeafDone(p)
    \/ \E p \in DOMAIN bulk.run : QLeafFailed(p)
    \/ \E p \in DOMAIN bulk.run : QBulkDone(p)
    \/ \E p \in DOMAIN bulk.run : QBulkFailed(p)
    \/ \E e \in {ErrConcurrentBulk, ErrQuery} : RQueryFailed(e)
    \/ RQueryDone
    \/ \E ok \in BOOLEAN : RSetMetadata(ok)
    \/ \E ok \in BOOLEAN : RNotify(ok)
SpecRun == InitRun /\ [][NextRun]_vars

\* ------------------------------------------------------ insertFunctionArg
\* the argument names of a function, in the order a HashMap lists its keys
ArgNames == <<"x", "y">>
KeyIndex(key) == CHOOSE i \in DOMAIN ArgNames : ArgNames[i] = key

\* HM.insert key val m, m listed in key order: the value of key is replaced,
\* or the entry is added
HMinsert(key, val, m) ==
    LET keep(e) == e.key # key
        before(e) == KeyIndex(e.key) < KeyIndex(key)
        after(e) == KeyIndex(e.key) > KeyIndex(key)
    IN  SelectSeq(m, before) \o <<Entry(key, val)>> \o SelectSeq(m, after)

\* mutant: Seq.update in the place of Seq.insertAt, the element at index i is
\* overwritten
insertAt_update(i, a, xs) ==
    [k \in DOMAIN xs |-> IF k = i + 1 THEN a ELSE xs[k]]

\* insertAt i a = toList . Seq.insertAt i a . Seq.fromList: a is put at index
\* i (from 0); at the front for i <= 0, at the end for i >= length
insertAt(i, a, xs) ==
    IF i <= 0 THEN <<a>> \o xs
    ELSE IF i >= Len(xs) THEN Append(xs, a)
    ELSE SubSeq(xs, 1, i) \o <<a>> \o SubSeq(xs, i + 1, Len(xs))

insertFunctionArg(argName, idx, value, args) ==
    LET positional == args._faePositional
        named == args._faeNamed
    IN  IF (idx + 1) <= Len(positional)
        THEN FunctionArgsExp(insertAt(idx, value, positional), named)
        ELSE FunctionArgsExp(positional, HMinsert(argName, value, named))

\* the argument lists and maps a call can start from: positional arguments
\* 1, 2, ... and named arguments for any set of names; the value inserted is
\* a new one or the one the first name may already be mapped to
ArgValues == {V(0), V(11)}
PositionalArgs == {[i \in 1 .. n |-> V(i)] : n \in 0 .. MaxArgs}
NamedArgs ==
    {SelectSeq([i \in DOMAIN ArgNames |-> Entry(ArgNames[i], V(10 + i))],
               LAMBDA e : e.key \in ks) : ks \in SUBSET Range(ArgNames)}

\* the call insertFunctionArg argName idx value args
InsertFunctionArg ==
    /\ call.st = "called"
    /\ call' = [call EXCEPT !.st = "returned",
                            !.result = <<insertFunctionArg(call.argName, call.idx,
                                                           call.value, call.args)>>]
    /\ UNCHANGED <<irVars, ob, bulk>>

InitArgs ==
    /\ IdleIR
    /\ ob = <<>>
    /\ bulk = <<>>
    /\ \E positional \in PositionalArgs, named \in NamedArgs,
          argName \in Range(ArgNames), idx \in (0 - 2) .. (MaxArgs + 1),
          value \in ArgValues :
            call = [st |-> "called", argName |-> argName, idx |-> idx, value |-> value,
                    args |-> FunctionArgsExp(positional, named), result |-> <<>>]

NextArgs == InsertFunctionArg
SpecArgs == InitArgs /\ [][NextArgs]_vars

\* ------------------------------------------------- column field construction
\* the arguments the two smart constructors are called with
Columns == {"id", "name", "tags"}
ColumnTypes == {"int", "text", "json"}
CaseBoolExps == {Nothing, Just(annBoolExpTrue), Just(BoolAnd(<<BoolField("owner_id", V(1))>>))}
ScalarSelectionArguments == {Nothing, Just("$.a"), Just("$.b[0]")}

\* the call mkAnnColumnField col typ caseBoolExp colOpM
MkAnnColumnField ==
    /\ call.st = "called"
    /\ call.fn = "mkAnnColumnField"
    /\ call' = [call EXCEPT !.st = "returned",
                            !.result = <<mkAnnColumnField(call.col, call.typ,
                                                          call.caseBoolExp, call.colOpM)>>]
    /\ UNCHANGED <<irVars, ob, bulk>>

\* the call mkAnnColumnFieldAsText ci
MkAnnColumnFieldAsText ==
    /\ call.st = "called"
    /\ call.fn = "mkAnnColumnFieldAsText"
    /\ call' = [call EXCEPT !.st = "returned",
                            !.result = <<mkAnnColumnFieldAsText(ColumnInfo(call.col, call.typ))>>]
    /\ UNCHANGED <<irVars, ob, bulk>>

InitColumn ==
    /\ IdleIR
    /\ ob = <<>>
    /\ bulk = <<>>
    /\ \E col \in Columns, typ \in ColumnTypes :
        \/ \E caseBoolExp \in CaseBoolExps, colOpM \in ScalarSelectionArguments :
            call = [st |-> "called", fn |-> "mkAnnColumnField", col |-> col, typ |-> typ,
                    caseBoolExp |-> caseBoolExp, colOpM |-> colOpM, result |-> <<>>]
        \/ call = [st |-> "called", fn |-> "mkAnnColumnFieldAsText", col |-> col, typ |-> typ,
                   caseBoolExp |-> Nothing, colOpM |-> Nothing, result |-> <<>>]

NextColumn == MkAnnColumnField \/ MkAnnColumnFieldAsText
SpecColumn == InitColumn /\ [][NextColumn]_vars

\* ---------------------------------- Hasura.Backends.Postgres.Instances.Metadata
\* ExtraTableMetadata of a Citus table
ExtraTableMetadata == {"Local", "Reference", "Distributed"}
TableNames == {"t1", "t2"}
\* TableCache: the tracked tables with their distribution type
TableCaches == UNION {[ts -> ExtraTableMetadata] : ts \in SUBSET TableNames}

\* Either (ObjRelDef b) (ArrRelDef b), of which the 'using' part is read
ObjRel(using) == [side |-> "Left", using |-> using]
ArrRel(using) == [side |-> "Right", using |-> using]
SameTable == [tag |-> "RUFKeyOn", on |-> "SameTable"]
RemoteTable(targetTable) == [tag |-> "RUFKeyOn", on |-> "RemoteTable", table |-> targetTable]
ArrRelUsingFKeyOn(targetTable) == [tag |-> "RUFKeyOn", on |-> "ArrRelUsingFKeyOn", table |-> targetTable]
RUManual == [tag |-> "RUManual"]
RelInfos ==
    {ObjRel(SameTable), ObjRel(RUManual), ArrRel(RUManual)}
        \cup {ObjRel(RemoteTable(t)) : t \in TableNames}
        \cup {ArrRel(ArrRelUsingFKeyOn(t)) : t \in TableNames}

Pure == [ok |-> TRUE]
throw400(code) == [ok |-> FALSE, status |-> 400, code |-> code]

\* lookupTableInfo tableName, and the check k run on the table found
lookupTableInfo(tableCache, tableName) ==
    IF tableName \in DOMAIN tableCache THEN <<tableCache[tableName]>> ELSE <<>>

\* mutant: a reference table is treated like a local one
checkObjectRelationship_referenceAsLocal(tableCache, source, targetTable) ==
    LET target == lookupTableInfo(tableCache, targetTable)
    IN  IF target = <<>> THEN throw400("NotFound")
        ELSE CASE source = "Distributed" /\ target[1] \in {"Local", "Reference"} -> throw400("NotSupported")
               [] source = "Distributed" /\ target[1] = "Distributed" -> Pure
               [] source # "Distributed" /\ target[1] = "Distributed" -> throw400("NotSupported")
               [] OTHER -> Pure

checkObjectRelationship(tableCache, source, targetTable) ==
    LET target == lookupTableInfo(tableCache, targetTable)
    IN  IF target = <<>> THEN throw400("NotFound")
        ELSE CASE source = "Distributed" /\ target[1] = "Local" -> throw400("NotSupported")
               [] source = "Distributed" /\ target[1] = "Reference" -> Pure
               [] source = "Distributed" /\ target[1] = "Distributed" -> Pure
               [] source # "Distributed" /\ target[1] = "Distributed" -> throw400("NotSupported")
               [] OTHER -> Pure

checkArrayRelationship(tableCache, source, targetTable) ==
    LET target == lookupTableInfo(tableCache, targetTable)
    IN  IF target = <<>> THEN throw400("NotFound")
        ELSE CASE source = "Distributed" /\ target[1] = "Distributed" -> Pure
               [] source = "Distributed" -> throw400("NotSupported")
               [] target[1] = "Distributed" -> throw400("NotSupported")
               [] OTHER -> Pure

\* instance PostgresMetadata 'Citus
validateRel_Citus(tableCache, sourceTable, relInfo) ==
    LET sourceTableInfo == lookupTableInfo(tableCache, sourceTable)
        obj == relInfo.using
    IN  IF sourceTableInfo = <<>> THEN throw400("NotFound")
        ELSE IF relInfo.side = "Left"
        THEN CASE obj.tag = "RUFKeyOn" /\ obj.on = "SameTable" -> Pure
               [] obj.tag = "RUFKeyOn" /\ obj.on = "RemoteTable" ->
                    checkObjectRelationship(tableCache, sourceTableInfo[1], obj.table)
               [] obj.tag = "RUManual" -> Pure
        ELSE CASE obj.tag = "RUFKeyOn" ->
                    checkArrayRelationship(tableCache, sourceTableInfo[1], obj.table)
               [] obj.tag = "RUManual" -> Pure

\* validateRel @pgKind
validateRel(pgKind, tableCache, sourceTable, relInfo) ==
    CASE pgKind = "Vanilla" -> Pure
      [] pgKind = "Citus" -> validateRel_Citus(tableCache, sourceTable, relInfo)
      [] pgKind = "Cockroach" -> Pure

\* the call validateRel tableCache sourceTable relInfo
ValidateRel ==
    /\ call.st = "called"
    /\ call' = [call EXCEPT !.st = "returned",
                            !.result = <<validateRel(call.pgKind, call.tableCache,
                                                     call.sourceTable, call.relInfo)>>]
    /\ UNCHANGED <<irVars, ob, bulk>>

InitRel ==
    /\ IdleIR
    /\ ob = <<>>
    /\ bulk = <<>>
    /\ \E pgKind \in {"Vanilla", "Citus", "Cockroach"}, tableCache \in TableCaches,
          sourceTable \in TableNames, relInfo \in RelInfos :
            call = [st |-> "called", pgKind |-> pgKind, tableCache |-> tableCache,
                    sourceTable |-> sourceTable, relInfo |-> relInfo, result |-> <<>>]

NextRel == ValidateRel
SpecRel == InitRel /\ [][NextRel]_vars

\* ------------------------------------------ runPGMutationTransaction
\* RootFieldMap (DBStepInfo b): an insertion-ordered map, the sequence of its
\* root fields (distinct keys) in insertion order
RootFields == 1 .. MaxMutations
RootFieldMaps ==
    UNION {{m \in [1 .. n -> RootFields] : \A i, j \in 1 .. n : m[i] = m[j] => i = j}
           : n \in 0 .. MaxMutations}

\* logQueryLog, then runTxWithCtxAndUserInfo ... (Tx PG.ReadWrite Nothing)
\* opens the transaction the traversal runs in
TxBegin ==
    /\ call.st = "called"
    /\ call' = [call EXCEPT !.st = "inTx", !.ntx = @ + 1,
                            !.tx = <<[id |-> call.ntx + 1, mode |-> "ReadWrite"]>>]
    /\ UNCHANGED <<irVars, ob, bulk>>

\* mutant: every mutation is committed as soon as it has run
TxStep_autocommit(ok) ==
    /\ call.st = "inTx"
    /\ call.i <= Len(call.mutations)
    /\ LET fieldName == call.mutations[call.i]
       IN  call' = IF ok
                   THEN [call EXCEPT !.i = @ + 1,
                                     !.executed = Append(@, [key |-> fieldName, tx |-> call.tx[1]]),
                                     !.db = @ \cup {fieldName},
                                     !.results = Append(@, Entry(fieldName, "json"))]
                   ELSE [call EXCEPT !.st = "failed", !.pending = {}, !.results = <<>>,
                                     !.tx = <<>>, !.err = <<fieldName>>]
    /\ UNCHANGED <<irVars, ob, bulk>>

\* OMap.traverseWithKey: dbsiAction of the next root field runs inside the
\* transaction; when it throws, the transaction is rolled back and the error
\* leaves runPGMutationTransaction
TxStep(ok) ==
    /\ call.st = "inTx"
    /\ call.i <= Len(call.mutations)
    /\ LET fieldName == call.mutations[call.i]
       IN  call' = IF ok
                   THEN [call EXCEPT !.i = @ + 1,
                                     !.executed = Append(@, [key |-> fieldName, tx |-> call.tx[1]]),
                                     !.pending = @ \cup {fieldName},
                                     !.results = Append(@, Entry(fieldName, "json"))]
                   ELSE [call EXCEPT !.st = "failed", !.pending = {}, !.results = <<>>,
                                     !.tx = <<>>, !.err = <<fieldName>>]
    /\ UNCHANGED <<irVars, ob, bulk>>

\* the traversal is over: the transaction commits (or fails to) and the
\* result map is returned
TxCommit(ok) ==
    /\ call.st = "inTx"
    /\ call.i > Len(call.mutations)
    /\ call' = IF ok
               THEN [call EXCEPT !.st = "returned", !.db = @ \cup call.pending, !.pending = {},
                                 !.tx = <<>>, !.result = <<call.results>>]
               ELSE [call EXCEPT !.st = "failed", !.pending = {}, !.results = <<>>,
                                 !.tx = <<>>, !.err = <<"commit">>]
    /\ UNCHANGED <<irVars, ob, bulk>>

InitTx ==
    /\ IdleIR
    /\ ob = <<>>
    /\ bulk = <<>>
    /\ \E mutations \in RootFieldMaps :
        call = [st |-> "called", mutations |-> mutations, i |-> 1, ntx |-> 0, tx |-> <<>>,
                executed |-> <<>>, pending |-> {}, db |-> {}, results |-> <<>>,
                result |-> <<>>, err |-> <<>>]

NextTx ==
    \/ TxBegin
    \/ \E ok \in BOOLEAN : TxStep(ok)
    \/ \E ok \in BOOLEAN : TxCommit(ok)
SpecTx == InitTx /\ [][NextTx]_vars

\* ------------------------------------------- useCreateHasuraCloudDatasource
\* The hook: call.state is the React state, call.props the arguments it is
\* rendered with, call.flows the calls of start with what each captured and
\* where its promise chain stands, call.log every state set so far with the
\* callback that set it.
EnvVars == {"NEON_DATABASE_URL", "NEON_DATABASE_URL_2"}
DataSourceNames == {"default", "neon-db"}
Status(status) == [status |-> status]
StatusWith(status, payload) == [status |-> status, payload |-> payload]
HasuraDBCreationPayload(envVar, dataSourceName) ==
    [envVar |-> envVar, dataSourceName |-> dataSourceName]

\* setState st, by callback by of flow f
setState(st, by, f) ==
    [call EXCEPT !.state = st, !.log = Append(@, [s |-> st, by |-> by, flow |-> f])]
Pending(f) == f.pc # "done"

\* start(): nothing without a dbUrl, else 'adding-env-var' and the call of
\* setDBURLInEnvVars
start ==
    /\ Len(call.flows) < MaxStarts
    /\ call' = IF call.props.dbUrl = ""
               THEN call
               ELSE [setState(Status("adding-env-var"), "start", Len(call.flows) + 1)
                        EXCEPT !.flows = Append(@,
                            [pc |-> "setDBURLInEnvVars", envVar |-> <<>>,
                             dataSourceName |-> call.props.dataSourceName,
                             dbUrl |-> call.props.dbUrl,
                             overlaps |-> \E i \in DOMAIN call.flows : Pending(call.flows[i])])]
    /\ UNCHANGED <<irVars, ob, bulk>>

\* setDBURLInEnvVars(dbUrl).then(envVar => ...): 'adding-data-source', and the
\* timer is set
EnvVarResolved(f, envVar) ==
    /\ f \in DOMAIN call.flows
    /\ call.flows[f].pc = "setDBURLInEnvVars"
    /\ call' = [setState(StatusWith("adding-data-source",
                            HasuraDBCreationPayload(envVar, call.flows[f].dataSourceName)),
                         "then", f)
                    EXCEPT !.flows[f].pc = "setTimeout", !.flows[f].envVar = <<envVar>>]
    /\ UNCHANGED <<irVars, ob, bulk>>

\* .catch(error => setState(prevState => ...))
EnvVarRejected(f) ==
    /\ f \in DOMAIN call.flows
    /\ call.flows[f].pc = "setDBURLInEnvVars"
    /\ LET prevState == call.state
           st == IF prevState.status = "adding-env-var"
                 THEN StatusWith("adding-env-var-failed", [dbUrl |-> call.flows[f].dbUrl])
                 ELSE IF prevState.status = "adding-data-source"
                 THEN StatusWith("adding-data-source-failed", prevState.payload)
                 ELSE prevState
       IN  call' = IF st = prevState
                   THEN [call EXCEPT !.flows[f].pc = "done"]
                   ELSE [setState(st, "catch", f) EXCEPT !.flows[f].pc = "done"]
    /\ UNCHANGED <<irVars, ob, bulk>>

\* the timer fires: verifyProjectHealthAndConnectDataSource is called
TimerFired(f) ==
    /\ f \in DOMAIN call.flows
    /\ call.flows[f].pc = "setTimeout"
    /\ call' = [call EXCEPT !.flows[f].pc = "verifyProjectHealth"]
    /\ UNCHANGED <<irVars, ob, bulk>>

\* the project is healthy: executeConnect(envVar, successCallback,
\* errorCallback) sets 'adding-data-source' and calls connectDataSource, which
\* may throw
executeConnect(f, throws) ==
    /\ f \in DOMAIN call.flows
    /\ call.flows[f].pc = "verifyProjectHealth"
    /\ LET payload == HasuraDBCreationPayload(call.flows[f].envVar[1], call.flows[f].dataSourceName)
           c == setState(StatusWith("adding-data-source", payload), "executeConnect", f)
       IN  call' = IF throws
                   THEN [c EXCEPT !.state = StatusWith("adding-data-source-failed", payload),
                                  !.log = Append(@, [s |-> StatusWith("adding-data-source-failed", payload),
                                                     by |-> "errorCallback", flow |-> f]),
                                  !.flows[f].pc = "done"]
                   ELSE [c EXCEPT !.flows[f].pc = "connectDataSource"]
    /\ UNCHANGED <<irVars, ob, bulk>>

\* the project did not come up: the error callback of the health check
HealthFailed(f) ==
    /\ f \in DOMAIN call.flows
    /\ call.flows[f].pc = "verifyProjectHealth"
    /\ call' = [setState(StatusWith("adding-data-source-failed",
                            HasuraDBCreationPayload(call.flows[f].envVar[1],
                                                    call.flows[f].dataSourceName)),
                         "healthErrorCallback", f)
                    EXCEPT !.flows[f].pc = "done"]
    /\ UNCHANGED <<irVars, ob, bulk>>

\* mutant: the success payload carries the database URL
successCallback_dbUrl(f) ==
    /\ f \in DOMAIN call.flows
    /\ call.flows[f].pc = "connectDataSource"
    /\ call' = [setState(StatusWith("success",
                            HasuraDBCreationPayload(call.flows[f].dbUrl,
                                                    call.flows[f].dataSourceName)),
                         "successCallback", f)
                    EXCEPT !.flows[f].pc = "done"]
    /\ UNCHANGED <<irVars, ob, bulk>>

\* connectDataSource calls the success callback
successCallback(f) ==
    /\ f \in DOMAIN call.flows
    /\ call.flows[f].pc = "connectDataSource"
    /\ call' = [setState(StatusWith("success",
                            HasuraDBCreationPayload(call.flows[f].envVar[1],
                                                    call.flows[f].dataSourceName)),
                         "successCallback", f)
                    EXCEPT !.flows[f].pc = "done"]
    /\ UNCHANGED <<irVars, ob, bulk>>

InitNeon ==
    /\ IdleIR
    /\ ob = <<>>
    /\ bulk = <<>>
    /\ \E dbUrl \in {"", "postgres://neon"}, dataSourceName \in DataSourceNames :
        call = [state |-> Status("idle"),
                props |-> [dbUrl |-> dbUrl, dataSourceName |-> dataSourceName],
                flows |-> <<>>, log |-> <<>>]

NextNeon ==
    \/ start
    \/ \E f \in 1 .. MaxStarts, envVar \in EnvVars : EnvVarResolved(f, envVar)
    \/ \E f \in 1 .. MaxStarts : EnvVarRejected(f)
    \/ \E f \in 1 .. MaxStarts : TimerFired(f)
    \/ \E f \in 1 .. MaxStarts, throws \in BOOLEAN : executeConnect(f, throws)
    \/ \E f \in 1 .. MaxStarts : HealthFailed(f)
    \/ \E f \in 1 .. MaxStarts : successCallback(f)
SpecNeon == InitNeon /\ [][NextNeon]_vars

\* ------------------------------------------- order-by elements (C7)
\* a permission filter with n leaves, numbered from b + 1
FilterOf(n, b) ==
    CASE n = 0 -> annBoolExpTrue
      [] n = 1 -> PermFilter(b + 1)
      [] n = 2 -> BoolAnd(<<BoolField("owner_id", V(b + 1)), BoolField("tenant", V(b + 2))>>)

\* the innermost element: a plain column, an aggregate over an array relation
\* with a permission filter of n leaves, or a computed field with n arguments
ObBase(kind, n) ==
    /\ ob.st = "empty"
    /\ kind = "column" => n = 0
    /\ ob' = [st |-> "built",
              elem |-> <<CASE kind = "column" -> AOCColumn("c1")
                           [] kind = "aggregate" ->
                                AOCArrayAggregation("arr", FilterOf(n, 0), AAOCount)
                           [] kind = "computed" ->
                                AOCComputedField(ComputedFieldOrderBy("x", "cf", "fn",
                                    FunctionArgsExp([i \in 1 .. n |-> V(i)], <<>>),
                                    CFOBEScalar("int")))>>,
              depth |-> 0, leaves |-> n, inP |-> {}, topP |-> 0, count |-> <<>>]
    /\ UNCHANGED <<irVars, bulk, call>>

\* ordering by a column reached through one more object relation, whose
\* target table has a permission filter of n leaves
ObWrap(n) ==
    /\ ob.st = "built"
    /\ ob.depth < MaxObDepth
    /\ ob' = [ob EXCEPT !.elem = <<AOCObjectRelation("rel", FilterOf(n, ob.leaves), ob.elem[1])>>,
                        !.depth = @ + 1,
                        !.leaves = @ + n,
                        !.inP = @ \cup ((ob.leaves + 1) .. (ob.leaves + n)),
                        !.topP = n]
    /\ UNCHANGED <<irVars, bulk, call>>

\* the element is folded with the counting function
ObCount ==
    /\ ob.st = "built"
    /\ ob' = [ob EXCEPT !.st = "counted", !.count = <<length(ob.elem[1])>>]
    /\ UNCHANGED <<irVars, bulk, call>>

InitOrderBy ==
    /\ IdleIR
    /\ ob = [st |-> "empty", elem |-> <<>>, depth |-> 0, leaves |-> 0, inP |-> {},
             topP |-> 0, count |-> <<>>]
    /\ bulk = <<>>
    /\ call = <<>>

NextOrderBy ==
    \/ \E kind \in {"column", "aggregate", "computed"}, n \in 0 .. 2 : ObBase(kind, n)
    \/ \E n \in 0 .. 2 : ObWrap(n)
    \/ ObCount
SpecOrderBy == InitOrderBy /\ [][NextOrderBy]_vars

\* ------------------------------------------------------------------ claims
IsV(e) == e.c = "v"
IsR(e) == e.c = "r"
\* the markers a bifold handed to g, and to f, in the order it did
VIds(s) == [i \in DOMAIN SelectSeq(s, IsV) |-> SelectSeq(s, IsV)[i].x]
RIds(s) == [i \in DOMAIN SelectSeq(s, IsR) |-> SelectSeq(s, IsR)[i].x]
Occurrences(s, i) == Cardinality({j \in DOMAIN s : s[j] = i})
\* the select the root holds, directly or inside its connection select
RootSelect == IF root[1].tag = "QDBConnection" THEN root[1].sel._csSelect ELSE root[1].sel
\* the field of the outermost field list that the leaf marker i was put in
Owner(i) == CHOOSE j \in DOMAIN seg.fb : i <= seg.fb[j] /\ \A m \in 1 .. (j - 1) : seg.fb[m] < i

\* C1: bifoldMap f g over a finished QueryDB tree hands every remote payload
\* to f exactly once and every leaf to g exactly once: none skipped, none twice.
C1_BifoldComplete ==
    pc = "folded" =>
        /\ Len(acc) = nr + nv
        /\ \A i \in 1 .. nr : Occurrences(RIds(acc), i) = 1
        /\ \A i \in 1 .. nv : Occurrences(VIds(acc), i) = 1

C1_Witness ==
    /\ pc = "folded"
    /\ nr >= 1
    /\ nv >= 5
    /\ fields # <<>>
    /\ fields[1].val.tag = "AFArrayRelation"

\* s lists the leaves of the root in the order: cursor splits, leaves of the
\* fields (field by field, in the order of the field list), from-clause,
\* permission filter, arguments
OrderOK(s) ==
    LET nS == Len(seg.split)
    IN  /\ Len(s) = nv
        /\ SubSeq(s, 1, nS) = seg.split
        /\ {s[p] : p \in (nS + 1) .. (nS + seg.nf)} = 1 .. seg.nf
        /\ \A p, q \in (nS + 1) .. (nS + seg.nf) : p < q => Owner(s[p]) <= Owner(s[q])
        /\ SubSeq(s, nS + seg.nf + 1, nv) = seg.from \o seg.perm \o seg.args

\* C3: foldMap, traverse and the bifold of a select visit the leaves of the
\* fields in field order (nested selects included), then those of the
\* from-clause, then of the permission filter, then of the arguments.
C3_SelectOrder ==
    /\ pc = "ready" => OrderOK(toList(root[1]))
    /\ pc = "traversed" => OrderOK(acc.log)
    /\ pc = "folded" => OrderOK(VIds(acc))

C3_Witness ==
    /\ pc = "folded"
    /\ root[1].tag = "QDBStreamMultipleRows"
    /\ Len(seg.fb) = 2
    /\ seg.nf >= 2
    /\ seg.perm # <<>>
    /\ seg.args # <<>>

\* C4: the bifold of a connection select is the fold of its cursor splits
\* (bound value and order-by leaves, each handed to g once) followed by
\* bifoldMapAnnSelectG of the wrapped select; without splits it is the latter.
C4_ConnectionFold ==
    pc = "folded" /\ root[1].tag = "QDBConnection" =>
        LET c == root[1].sel
            inner == bifoldMapAnnSelectG(InR, InV, c._csSelect)
        IN  /\ acc = [i \in DOMAIN seg.split |-> [c |-> "v", x |-> seg.split[i]]] \o inner
            /\ \A i \in Range(seg.split) : Occurrences(VIds(acc), i) = 1
            /\ c._csSplit = Nothing => acc = inner

C4_Witness ==
    /\ pc = "folded"
    /\ root[1].tag = "QDBConnection"
    /\ Len(root[1].sel._csSplit) = 2
    /\ Len(seg.split) = 3

\* C6: the leaves a traverse visits, in the order it visits them, are the
\* leaves toList collects: same values, same multiplicities, same order.
C6_FoldTraverse ==
    pc = "traversed" => acc.log = toList(root[1])

C6_Witness ==
    /\ pc = "traversed"
    /\ Len(acc.log) >= 6
    /\ RootSelect.tag = "AnnSelectG"
    /\ RootSelect._asnArgs._saOrderBy # Nothing

\* C9: noTablePermissions is the always-true filter without a limit and holds
\* no leaf, so the permission of a select built with it adds nothing to a
\* fold or bifold; noSelectArgs has where, order-by, limit, offset and
\* distinct all absent.
C9_NoPermissions ==
    /\ noTablePermissions._tpFilter = annBoolExpTrue
    /\ noTablePermissions._tpLimit = Nothing
    /\ toList(noTablePermissions) = <<>>
    /\ \A fld \in {"_saWhere", "_saOrderBy", "_saLimit", "_saOffset", "_saDistinct"} :
            noSelectArgs[fld] = Nothing
    /\ pc = "folded" /\ RootSelect.tag = "AnnSelectG" /\ RootSelect._asnPerm = noTablePermissions =>
            /\ seg.perm = <<>>
            /\ Len(VIds(acc)) = nv
            /\ SubSeq(VIds(acc), Len(seg.split) + seg.nf + 1, nv) = seg.from \o seg.args

C9_Witness ==
    /\ pc = "folded"
    /\ RootSelect.tag = "AnnSelectG"
    /\ RootSelect._asnPerm = noTablePermissions
    /\ seg.from # <<>>
    /\ seg.args # <<>>
    /\ seg.nf >= 1

\* what of a constructor application is not a leaf: its constructor, its
\* plain fields, and of each field that mentions v the number of sub-values
\* (for a field map the names)
Plain(x) ==
    [fld \in DOMAIN x |->
        IF \E i \in DOMAIN x.vf : x.vf[i].n = fld
        THEN LET d == x.vf[CHOOSE i \in DOMAIN x.vf : x.vf[i].n = fld]
             IN  CASE d.c = "one" -> 1
                   [] d.c = "list" -> Len(x[fld])
                   [] d.c = "pairs" -> [j \in DOMAIN x[fld] |-> x[fld][j].key]
        ELSE x[fld]]
\* x and y differ at most in the values of their leaves
RECURSIVE sameShape(_, _)
sameShape(x, y) ==
    IF x.k = "v" \/ y.k = "v" THEN x.k = y.k
    ELSE /\ DOMAIN x = DOMAIN y
         /\ Plain(x) = Plain(y)
         /\ LET cx == children(x)
                cy == children(y)
            IN  \A j \in DOMAIN cx : sameShape(cx[j], cy[j])

\* C5: fmap id is the identity, fmap g after fmap f is fmap (g . f), and
\* fmap f changes the values of leaves and nothing else.
C5_FunctorLaws ==
    pc = "mapped" =>
        /\ acc.f = "id" => acc.once = root[1]
        /\ acc.twice = fmap(Compose(Subst(acc.g), Subst(acc.f)), root[1])
        /\ sameShape(root[1], acc.once)

C5_Witness ==
    /\ pc = "mapped"
    /\ acc.f = "id"
    /\ root[1].tag = "QDBConnection"
    /\ Len(root[1].sel._csSplit) = 2
    /\ root[1].sel._csSlice # Nothing
    /\ nv >= 6
    /\ acc.once = root[1]
    /\ acc.twice # root[1]

\* C8 as stated: an AFRemote field and the selection held by a
\* SourceRelationshipObject, folded with the same f and g, give two different
\* results; the payload of the former goes only to f, the leaves of the
\* latter only to g.
C8_AlwaysDistinguished ==
    pc = "paired" =>
        /\ acc.remote # acc.source
        /\ acc.remote = <<[c |-> "r", x |-> pair[1].p]>>
        /\ \A i \in 1 .. nv : Occurrences(VIds(acc.source), i) = 1

\* C8 amended: the payload of the AFRemote field goes only to f, the leaves of
\* the selection go only to g (each once) and the payloads of the remote
\* fields nested in it to f; the two results differ unless the selection has
\* no leaf and exactly one remote payload, the one of the AFRemote field.
C8_Distinguished ==
    pc = "paired" =>
        /\ acc.remote = <<[c |-> "r", x |-> pair[1].p]>>
        /\ Len(acc.source) = nr + nv
        /\ \A i \in 1 .. nv : Occurrences(VIds(acc.source), i) = 1
        /\ \A i \in 1 .. nr : Occurrences(RIds(acc.source), i) = 1
        /\ (acc.remote = acc.source) <=> (nv = 0 /\ nr = 1 /\ pair[1].p = 1)

C8_Witness ==
    /\ pc = "paired"
    /\ nv >= 2
    /\ nr = 1
    /\ pair[1].p = 1
    /\ pair[1].source.tag = "SourceRelationshipObject"
    /\ acc.remote # acc.source

\* C7: the fold of an object-relation order-by element counts every leaf of
\* the permission filter P of each object relation passed through as well as
\* every leaf of the nested element; a nested plain column adds none.
C7_OrderByObjectRelation ==
    ob # <<>> /\ ob.st = "counted" /\ ob.elem[1].tag = "AOCObjectRelation" =>
        LET e == ob.elem[1]
        IN  /\ ob.count[1] = ob.leaves
            /\ ob.count[1] = length(e.filter) + length(e.element)
            /\ length(e.filter) = ob.topP
            /\ ob.inP \subseteq Range(toList(e))
            /\ e.element.tag = "AOCColumn" => ob.count[1] = ob.topP

C7_Witness ==
    /\ ob # <<>>
    /\ ob.st = "counted"
    /\ ob.depth = 2
    /\ ob.topP = 2
    /\ ob.count[1] = 3
    /\ ob.elem[1].element.tag = "AOCObjectRelation"
    /\ ob.elem[1].element.element.tag = "AOCColumn"

\* the queries nested, at any depth, in the query at p
Descendants(p) ==
    {d \in DOMAIN bulk.run : Len(d) > Len(p) /\ SubSeq(d, 1, Len(p)) = p}
\* some query nested in the bulk at p is a run_sql that requires the schema
\* cache to be rebuilt
HasSchemaLeaf(p) ==
    \E d \in Descendants(p) :
        LET q == NodeAt(bulk.rq[1], d)
        IN  /\ q.tag \in {"RQRunSql", "RQCitusRunSql", "RQCockroachRunSql", "RQMssqlRunSql"}
            /\ q.rebuild

\* C2: a concurrent_bulk with a schema-modifying query nested in it at any
\* depth ends in the 500 error as soon as it is entered and none of its
\* queries is ever started; the error is thrown in no other case, so only a
\* concurrent_bulk without such a query runs its queries.
C2_ConcurrentBulkReadOnly ==
    bulk # <<>> /\ bulk.phase = "run" =>
        \A p \in DOMAIN bulk.run :
            NodeAt(bulk.rq[1], p).tag = "RQConcurrentBulk" =>
                /\ HasSchemaLeaf(p) =>
                        /\ bulk.run[p] \in {"pending", "error500"}
                        /\ \A d \in Descendants(p) : bulk.run[d] = "pending"
                /\ bulk.run[p] = "error500" => HasSchemaLeaf(p)
                /\ (\E d \in Descendants(p) : bulk.run[d] # "pending") => ~HasSchemaLeaf(p)

C2_Witness ==
    /\ bulk # <<>>
    /\ bulk.phase = "run"
    /\ bulk.rq[1] = RQConcurrentBulk(<<RQBulk(<<RQSql("RQRunSql", TRUE)>>), RQ("RQSelect")>>)
    /\ bulk.run[<<>>] = "error500"
    /\ bulk.run[<<1>>] = "pending"
    /\ bulk.run[<<1, 1>>] = "pending"
    /\ bulk.run[<<2>>] = "pending"

\* C10 as stated: when idx is at most the number of positional arguments the
\* value is inserted in the positional arguments (and the named ones are left
\* alone), else it is inserted under the argument name in the named arguments
\* (and the positional ones are left alone).
C10_InsertByIndex ==
    call # <<>> /\ call.st = "returned" =>
        LET positional == call.args._faePositional
            named == call.args._faeNamed
            res == call.result[1]
        IN  IF call.idx <= Len(positional)
            THEN /\ res._faePositional = insertAt(call.idx, call.value, positional)
                 /\ res._faeNamed = named
            ELSE /\ res._faePositional = positional
                 /\ res._faeNamed = HMinsert(call.argName, call.value, named)

\* the sequence xs without its k-th element
Without(xs, k) == SubSeq(xs, 1, k - 1) \o SubSeq(xs, k + 1, Len(xs))
\* the values a named-argument map has for a name, and its other entries
LookupArg(m, key) == {m[i].val : i \in {j \in DOMAIN m : m[j].key = key}}
OtherArgs(m, key) == SelectSeq(m, LAMBDA e : e.key # key)
\* the result is a positional insertion at index at: one element more, the
\* value at that index, the others in their order, the named map as it was
PositionalInsert(at) ==
    LET res == call.result[1]
    IN  /\ Len(res._faePositional) = Len(call.args._faePositional) + 1
        /\ (at + 1) \in DOMAIN res._faePositional
        /\ res._faePositional[at + 1] = call.value
        /\ Without(res._faePositional, at + 1) = call.args._faePositional
        /\ res._faeNamed = call.args._faeNamed
\* the result is an insertion by name: the positional list as it was, the
\* name mapped to the value by one entry, every other entry as it was
NamedInsert ==
    LET res == call.result[1]
    IN  /\ res._faePositional = call.args._faePositional
        /\ LookupArg(res._faeNamed, call.argName) = {call.value}
        /\ Cardinality({j \in DOMAIN res._faeNamed : res._faeNamed[j].key = call.argName}) = 1
        /\ OtherArgs(res._faeNamed, call.argName) = OtherArgs(call.args._faeNamed, call.argName)
\* the collections of the result that differ from those of the argument
ChangedCollections ==
    {c \in {"_faePositional", "_faeNamed"} : call.result[1][c] # call.args[c]}
\* every call returns, and a returned call holds a FunctionArgsExp
ArgsTotal ==
    /\ call.st = "called" => ENABLED InsertFunctionArg
    /\ call.st = "returned" =>
            /\ Len(call.result) = 1
            /\ DOMAIN call.result[1] = DOMAIN call.args
\* the call leaves its arguments as they were
ArgsKept ==
    /\ call'.args = call.args
    /\ call'.value = call.value
    /\ call'.idx = call.idx
    /\ call'.argName = call.argName

\* C21 as stated: insertFunctionArg returns for every idx, and a return
\* changes exactly one of the two collections: either the value is in the
\* positional list at index idx, the list one longer, the rest in order and
\* the named map unchanged, or the positional list is unchanged and the name
\* maps to the value with every other entry unchanged; the arguments of the
\* call are not modified.
C21_TotalFrameAtIdx ==
    /\ [](ArgsTotal /\ (call.st = "returned" =>
                /\ Cardinality(ChangedCollections) = 1
                /\ PositionalInsert(call.idx) \/ NamedInsert))
    /\ [][ArgsKept]_vars

\* C21 amended: as above, but a negative idx puts the value at index 0, and
\* an insertion by name under a name already mapped to the value changes
\* neither collection.
C21_TotalFrame ==
    /\ [](ArgsTotal /\ (call.st = "returned" =>
                /\ Cardinality(ChangedCollections) <= 1
                /\ ChangedCollections = {} =>
                        /\ NamedInsert
                        /\ LookupArg(call.args._faeNamed, call.argName) = {call.value}
                /\ PositionalInsert(IF call.idx < 0 THEN 0 ELSE call.idx) \/ NamedInsert))
    /\ [][ArgsKept]_vars

C21_Witness ==
    /\ call # <<>>
    /\ call.st = "returned"
    /\ call.idx = 0 - 1
    /\ call.args = FunctionArgsExp(<<V(1), V(2)>>, <<Entry("y", V(12))>>)
    /\ call.result[1] = FunctionArgsExp(<<V(0), V(1), V(2)>>, <<Entry("y", V(12))>>)

\* what of a streaming select no pass over its leaves may touch
StreamFrame(sel) ==
    [cursor |-> sel._assnArgs._ssaCursorArg, batchSize |-> sel._assnArgs._ssaBatchSize,
     strfyNum |-> sel._assnStrfyNum, xStream |-> sel._assnXStreamingSubscription]

\* C11: fmap and traverse over a streaming select leave the cursor item
\* (ordering, column info, initial value), the batch size and the
\* stringify-numbers flag as they were; the folds hand to g only the leaves
\* that were put in the tree, and of the streaming arguments only those of
\* the where filter: never the initial value of the cursor.
C11_StreamCursorImmutable ==
    root # <<>> /\ root[1].tag = "QDBStreamMultipleRows" =>
        LET sel == root[1].sel
            where == sel._assnArgs._ssaWhere
        IN  /\ pc = "traversed" =>
                /\ StreamFrame(acc.val.sel) = StreamFrame(sel)
                /\ StreamFrame(fmap(Subst(acc.f), root[1]).sel) = StreamFrame(sel)
                /\ Range(acc.log) = 1 .. nv
                /\ toList(sel._assnArgs) = foldMapList([i \in LeafDom |-> <<i>>], where)
            /\ pc = "folded" =>
                /\ Range(VIds(acc)) = 1 .. nv
                /\ Len(VIds(acc)) = nv
                /\ bifoldMapAnnSelectStreamG(InR, InV, sel)
                      = bifoldMapFields(InR, InV, sel._assnFields)
                          \o foldMap(InV, sel._assnFrom) \o foldMap(InV, sel._assnPerm)
                          \o foldMapList(InV, where)
                /\ seg.args = toList(sel._assnArgs)
                /\ Len(seg.args) = IF where = Nothing THEN 0 ELSE 1

C11_Witness ==
    /\ pc = "traversed"
    /\ acc.f = "zero"
    /\ root[1].tag = "QDBStreamMultipleRows"
    /\ root[1].sel._assnArgs._ssaWhere # Nothing
    /\ acc.val.sel._assnArgs._ssaWhere # root[1].sel._assnArgs._ssaWhere
    /\ acc.val.sel._assnArgs._ssaCursorArg = StreamCursorItem("asc", "c1", "init")

\* C12: mkAnnColumnField col typ caseExp args is an AFColumn of the given
\* column and type, not rendered as text, with arguments args and case
\* expression caseExp; mkAnnColumnFieldAsText ci is an AFColumn of the column
\* and type of ci, rendered as text, without arguments or case expression.
\* Every call returns.
C12_ColumnField ==
    /\ call # <<>> /\ call.st = "called" => ENABLED NextColumn
    /\ call # <<>> /\ call.st = "returned" =>
        LET res == call.result[1]
        IN  /\ res.tag = "AFColumn"
            /\ res.col.tag = "AnnColumnField"
            /\ res.col._acfColumn = call.col
            /\ res.col._acfType = call.typ
            /\ call.fn = "mkAnnColumnField" =>
                /\ res.col._acfAsText = FALSE
                /\ res.col._acfArguments = call.colOpM
                /\ res.col._acfCaseBoolExpression = call.caseBoolExp
            /\ call.fn = "mkAnnColumnFieldAsText" =>
                /\ res.col._acfAsText = TRUE
                /\ res.col._acfArguments = Nothing
                /\ res.col._acfCaseBoolExpression = Nothing

C12_Witness ==
    /\ call # <<>>
    /\ call.st = "returned"
    /\ call.fn = "mkAnnColumnField"
    /\ call.colOpM = Just("$.a")
    /\ call.caseBoolExp = Just(BoolAnd(<<BoolField("owner_id", V(1))>>))
    /\ call.result[1].col._acfArguments = Just("$.a")

\* the calls of setMetadata and notifySchemaCacheSync made so far
StorageWrites == {i \in DOMAIN bulk.ev : bulk.ev[i].op \in {"setMetadata", "notifySchemaCacheSync"}}
\* runQuery has the request
Received == bulk # <<>> /\ bulk.phase # "parse"
\* the queries of the request that write to the user's database
WriteLeaves ==
    {p \in DOMAIN bulk.run :
        NodeAt(bulk.rq[1], p).tag \in {"RQInsert", "RQUpdate", "RQDelete", "RQRunSql"}}

\* C13: with read-only mode enabled and queryModifiesUserDB true of the
\* request, runQuery ends at once with the 400 error: fetchMetadata,
\* runQueryM, setMetadata and notifySchemaCacheSync are not called, no query
\* is started and the metadata storage is as it was.
C13_ReadOnlyRejected ==
    Received /\ bulk.readOnly /\ queryModifiesUserDB(bulk.rq[1]) =>
        /\ bulk.phase = "replied"
        /\ bulk.reply = <<Replied(ErrReadOnly)>>
        /\ bulk.ev = <<>>
        /\ bulk.fetched = <<>>
        /\ \A p \in DOMAIN bulk.run : bulk.run[p] = "pending"
        /\ bulk.storage = [rv |-> 1, meta |-> "m1"]

C13_Witness ==
    /\ Received
    /\ bulk.readOnly
    /\ bulk.rq[1] = RQBulk(<<RQ("RQSelect"), RQ("RQInsert")>>)
    /\ bulk.reply = <<Replied(ErrReadOnly)>>

\* C14 as stated: with read-only mode enabled no insert, update, delete or
\* run_sql query of a request is ever started, wherever it is nested.
C14_NoWriteInReadOnly ==
    Received /\ bulk.readOnly => \A p \in WriteLeaves : bulk.run[p] = "pending"

\* C15: the metadata is fetched before the query runs; setMetadata is called
\* only for a schema-modifying request outside maintenance mode, after the
\* query returned, with the resource version fetched and the updated
\* metadata; notifySchemaCacheSync only after setMetadata succeeded, with the
\* version it returned.
C15_MetadataOrdering ==
    Received =>
        /\ bulk.run[<<>>] # "pending" =>
                /\ bulk.ev # <<>> /\ bulk.ev[1].op = "fetchMetadata"
                /\ bulk.fetched = <<[rv |-> 1, meta |-> "m1"]>>
        /\ \A i \in DOMAIN bulk.ev :
            /\ bulk.ev[i].op = "fetchMetadata" => i = 1
            /\ bulk.ev[i].op = "setMetadata" =>
                /\ i = 2
                /\ queryModifiesSchema(bulk.rq[1]) /\ ~bulk.maintenance
                /\ bulk.run[<<>>] = "done"
                /\ bulk.ev[i].rv = bulk.fetched[1].rv
                /\ bulk.ev[i].meta = UpdatedMetadata
                /\ bulk.ev[i].meta.changes # {}
            /\ bulk.ev[i].op = "notifySchemaCacheSync" =>
                /\ i = 3 /\ bulk.ev[2].op = "setMetadata"
                /\ bulk.newRv = <<bulk.storage.rv>>
                /\ bulk.storage = [rv |-> bulk.fetched[1].rv + 1, meta |-> UpdatedMetadata]
                /\ bulk.ev[i].rv = bulk.newRv[1]
        /\ ~queryModifiesSchema(bulk.rq[1]) => StorageWrites = {}
        /\ bulk.phase = "replied" /\ bulk.reply[1].ok /\ queryModifiesSchema(bulk.rq[1]) =>
                Len(bulk.ev) = 3

C15_Witness ==
    /\ Received
    /\ bulk.phase = "replied"
    /\ bulk.reply[1].ok
    /\ bulk.rq[1] = RQBulk(<<RQ("RQInsert"), RQSql("RQRunSql", TRUE)>>)
    /\ Len(bulk.ev) = 3
    /\ bulk.storage.rv = 2

\* C16 as stated: a schema-modifying request in maintenance mode ends with
\* the maintenance 500 error, without setMetadata, notifySchemaCacheSync or
\* an updated schema cache; a request that does not modify the schema
\* completes normally.
C16_MaintenanceAlways500 ==
    Received /\ bulk.phase = "replied" /\ bulk.maintenance =>
        IF queryModifiesSchema(bulk.rq[1])
        THEN /\ bulk.reply = <<Replied(ErrMaintenance)>>
             /\ StorageWrites = {}
        ELSE bulk.reply[1].ok

\* C16 amended: a schema-modifying request in maintenance mode never succeeds
\* and never reaches setMetadata or notifySchemaCacheSync; when its query has
\* returned the error is the maintenance 500 error, otherwise the error that
\* stopped it earlier (read-only, fetchMetadata, concurrent_bulk, the query).
\* A request that does not modify the schema whose query has returned
\* succeeds without writing to the storage.
C16_Maintenance ==
    Received /\ bulk.phase = "replied" /\ bulk.maintenance =>
        IF queryModifiesSchema(bulk.rq[1])
        THEN /\ ~bulk.reply[1].ok
             /\ bulk.reply[1].cache = <<>>
             /\ StorageWrites = {}
             /\ bulk.storage = [rv |-> 1, meta |-> "m1"]
             /\ bulk.run[<<>>] = "done" <=> bulk.reply = <<Replied(ErrMaintenance)>>
             /\ bulk.run[<<>>] # "done" =>
                    bulk.reply[1].err \in {ErrReadOnly, ErrStorage, ErrConcurrentBulk, ErrQuery}
        ELSE /\ StorageWrites = {}
             /\ bulk.run[<<>>] = "done" <=> bulk.reply[1].ok

C16_Witness ==
    /\ Received
    /\ bulk.maintenance
    /\ bulk.rq[1] = RQBulk(<<RQSql("RQRunSql", TRUE)>>)
    /\ bulk.run[<<1>>] = "done"
    /\ bulk.reply = <<Replied(ErrMaintenance)>>
    /\ bulk.ev = <<[op |-> "fetchMetadata"]>>

\* C17: on Citus, with both tables tracked, a foreign-key object relationship
\* to a table is rejected (400 NotSupported) exactly from a distributed table
\* to a local one and from a table that is not distributed to a distributed
\* one; a foreign-key array relationship exactly when one of the two tables is
\* distributed and the other is not; manual relationships and same-table
\* foreign-key object relationships are accepted whatever the types.
C17_CitusRelationships ==
    call # <<>> /\ call.st = "returned" /\ call.pgKind = "Citus"
        /\ call.sourceTable \in DOMAIN call.tableCache =>
        LET res == call.result[1]
            using == call.relInfo.using
            src == call.tableCache[call.sourceTable]
            tgt == call.tableCache[using.table]
            rejected == res = [ok |-> FALSE, status |-> 400, code |-> "NotSupported"]
        IN  IF using.tag = "RUManual" \/ using.on = "SameTable"
            THEN res.ok
            ELSE using.table \in DOMAIN call.tableCache =>
                    /\ rejected \/ res.ok
                    /\ call.relInfo.side = "Left" =>
                        (rejected <=> \/ src = "Distributed" /\ tgt = "Local"
                                      \/ src # "Distributed" /\ tgt = "Distributed")
                    /\ call.relInfo.side = "Right" =>
                        (rejected <=> (src = "Distributed") # (tgt = "Distributed"))

C17_Witness ==
    /\ call # <<>>
    /\ call.st = "returned"
    /\ call.pgKind = "Citus"
    /\ call.tableCache = [t \in TableNames |-> IF t = "t1" THEN "Distributed" ELSE "Reference"]
    /\ call.sourceTable = "t1"
    /\ call.relInfo = ObjRel(RemoteTable("t2"))
    /\ call.result[1].ok

\* the constructor the claim gives for each type name it lists, and the five
\* table operations it leaves out
ListedTypes ==
    [run_sql |-> "RQRunSql", pg_run_sql |-> "RQRunSql", mssql_run_sql |-> "RQMssqlRunSql",
     citus_run_sql |-> "RQCitusRunSql", cockroach_run_sql |-> "RQCockroachRunSql",
     mysql_run_sql |-> "RQMysqlRunSql", bigquery_run_sql |-> "RQBigqueryRunSql",
     bigquery_database_inspection |-> "RQBigqueryDatabaseInspection",
     bulk |-> "RQBulk", concurrent_bulk |-> "RQConcurrentBulk"]
TableOperations ==
    [insert |-> "RQInsert", select |-> "RQSelect", update |-> "RQUpdate",
     delete |-> "RQDelete", count |-> "RQCount"]
\* what parsing type t gives when the types of table are the built-in ones
ExpectedParse(table, valid, t) ==
    LET n == Len(t) - 8
    IN  IF \E k \in DOMAIN table : TypeName[k] = t
        THEN Parsed(RQ(table[CHOOSE k \in DOMAIN table : TypeName[k] = t]))
        ELSE IF /\ n >= 1
                /\ SubSeq(t, n + 1, Len(t)) = <<"_", "r", "u", "n", "_", "s", "q", "l">>
                /\ SubSeq(t, 1, n) \in valid
                /\ t[1] \in NameStart
                /\ \A i \in 1 .. n : t[i] \in NameStart \cup Digits
        THEN Parsed(RQDataConnectorRunSql(SubSeq(t, 1, n)))
        ELSE ParseError(<<"Unrecognised RQLQuery type: ", t>>)
ParsedType == call # <<>> /\ call.st = "returned" /\ call.o.type # Nothing /\ call.o.argsOk

\* C18 as stated: the ten listed type names parse to their constructors (the
\* built-in *_run_sql never to a data connector), another <name>_run_sql with
\* a valid data connector name to RQDataConnectorRunSql name, and every other
\* type fails as unrecognised.
C18_DispatchListedOnly ==
    ParsedType => call.result[1] = ExpectedParse(ListedTypes, call.valid, call.o.type[1])

\* C18 amended: as stated, with insert, select, update, delete and count
\* parsing to their constructors too.
C18_Dispatch ==
    ParsedType =>
        call.result[1] = ExpectedParse(ListedTypes @@ TableOperations, call.valid, call.o.type[1])

C18_Witness ==
    /\ ParsedType
    /\ call.o.type[1] = <<"s", "q", "l", "i", "t", "e", "_", "r", "u", "n", "_", "s", "q", "l">>
    /\ call.result[1] = Parsed(RQDataConnectorRunSql(<<"s", "q", "l", "i", "t", "e">>))

\* C19: the mutations of a request run in one read-write transaction, one
\* after another in the insertion order of the root field map; when one
\* fails the error leaves the call and none is committed; on success all are
\* committed and the result map has the keys of the input map in its order.
C19_MutationTransaction ==
    call # <<>> =>
        /\ call.ntx <= 1
        /\ Len(call.executed) <= Len(call.mutations)
        /\ \A j \in DOMAIN call.executed :
            /\ call.executed[j].key = call.mutations[j]
            /\ call.executed[j].tx = [id |-> 1, mode |-> "ReadWrite"]
        /\ call.st = "failed" => call.db = {} /\ call.err # <<>> /\ call.result = <<>>
        /\ call.st # "returned" => call.db = {}
        /\ call.st = "returned" =>
            /\ call.db = Range(call.mutations)
            /\ Len(call.executed) = Len(call.mutations)
            /\ [j \in DOMAIN call.result[1] |-> call.result[1][j].key] = call.mutations

C19_Witness ==
    /\ call # <<>>
    /\ call.st = "failed"
    /\ call.mutations = <<2, 1, 3>>
    /\ Len(call.executed) = 2
    /\ call.err = <<3>>
    /\ call.db = {}

\* the status before the i-th state was set
StatusBefore(i) == IF i = 1 THEN "idle" ELSE call.log[i - 1].s.status
Successes == {i \in DOMAIN call.log : call.log[i].s.status = "success"}
\* 'success' is set by the success callback only, after 'adding-data-source'
\* with the same payload, never right after 'idle', and carries the envVar
\* that setDBURLInEnvVars returned to the call of start it belongs to
SuccessFromConnect ==
    \A i \in Successes :
        /\ call.log[i].by = "successCallback"
        /\ \E j \in 1 .. (i - 1) :
                call.log[j].s = StatusWith("adding-data-source", call.log[i].s.payload)
        /\ StatusBefore(i) # "idle"
        /\ call.flows[call.log[i].flow].envVar = <<call.log[i].s.payload.envVar>>
\* 'adding-data-source' is entered only after setDBURLInEnvVars resolved while
\* the status was 'adding-env-var', and 'success' never right after
\* 'adding-env-var'
AfterEnvVar ==
    /\ \A j \in DOMAIN call.log :
        call.log[j].s.status = "adding-data-source" =>
            \E k \in 1 .. j : /\ call.log[k].by = "then"
                              /\ call.log[k].flow = call.log[j].flow
                              /\ StatusBefore(k) = "adding-env-var"
    /\ \A i \in Successes : StatusBefore(i) # "adding-env-var"
IsHook == call # <<>> /\ "log" \in DOMAIN call

\* C20 as stated: both hold of every run of the hook.
C20_SuccessOrderingAlways == IsHook => SuccessFromConnect /\ AfterEnvVar

\* C20 amended: the first holds of every run; the second of the runs in
\* which start is not called again while an earlier call is still in progress.
C20_SuccessOrdering ==
    IsHook =>
        /\ SuccessFromConnect
        /\ (\A f \in DOMAIN call.flows : ~call.flows[f].overlaps) => AfterEnvVar

C20_Witness ==
    /\ IsHook
    /\ Len(call.flows) = 2
    /\ ~call.flows[2].overlaps
    /\ call.log[2].s.status = "adding-env-var-failed"
    /\ call.state = StatusWith("success", HasuraDBCreationPayload("NEON_DATABASE_URL_2", "neon-db"))
    /\ call.log[Len(call.log) - 1].by = "executeConnect"
====
